---- MODULE Spec2Model ----
(***************************************************************************)
(* Model of the UDC01 agent-invocation and consensus core:                 *)
(*   - the response parser (get_str_between_tags, parse_isvalid,           *)
(*     parse_output),                                                      *)
(*   - the 2-of-3 consensus runner of validators.py in its sequential and  *)
(*     its parallel mode,                                                  *)
(*   - the retry loop of run_agent,                                        *)
(*   - the verify -> convert -> validate pipeline of data_flow.py.         *)
(* Texts are sequences of tokens; a token is a tag, a word or a blank.     *)
(* Python dicts are functions whose DOMAIN is the set of keys present.     *)
(***************************************************************************)
EXTENDS Integers, Sequences, FiniteSets, TLC

VARIABLES
    \* ---- consensus runner (validators.py) ----
    agent_type,      \* "verification" | "validation": which payload builder is used
    templates,       \* agent index -> placeholder tokens of its request template
    raw_data,        \* placeholder tokens the raw input text itself contains
    responses,       \* agent index -> the message run_agent returns for it
    max_workers,     \* config["max_parallel_workers"]
    mode,            \* "none" | "sequential" | "parallel": the run in progress
    pc,              \* position of the runner's main thread
    idx,             \* loop index of the sequential runner
    results,         \* the list of outcomes built by the run in progress
    task,            \* parallel mode: state of run_single_agent(0) and (1)
    future,          \* parallel mode: what each future holds, <<>> until done
    calls,           \* agent index -> number of run_agent calls in this run
    log,             \* events of this run, in order
    agent_cfg,       \* agent index -> the agent's configuration dict
    finished,        \* mode -> the result of the completed run of that mode
    \* ---- run_agent (validators.py) ----
    ra_pc,           \* position inside run_agent
    ra_max_retries,  \* agent_config["retry_attempts"]
    ra_backoff,      \* agent_config["retry_backoff"]
    agent_config,    \* the agent_config keys run_agent resolves the provider from
    provider_auth,   \* auth_header and auth_prefix of the provider, its API key
    ra_headers,      \* the headers of the requests (NoKeys until they are built)
    attempt,         \* loop variable of the retry loop
    net_calls,       \* outcomes of the requests.post calls made so far
    sleeps,          \* arguments of the time.sleep calls made so far
    last_error,      \* last_error of run_agent ("None" until a call failed)
    ra_result,       \* what run_agent returned (NoKeys until it returns)
    \* ---- pipeline (data_flow.py) ----
    p_pc,            \* position inside process_data
    max_retries,     \* config["max_retries"]
    retry_count,     \* retry_count of process_data
    p_idx,           \* loop index inside the verification/validation loop
    p_results,       \* results list of the consensus loop in progress
    p_messages,      \* what run_agent returned to the consensus loop in progress
    pre_verification_results,
    validation_results,
    output_data,     \* output of the most recent conversion (an Option)
    conv_response,   \* conv_response of the most recent conversion
    conv_attempts,   \* number of perform_conversion calls so far
    val_runs,        \* number of validation runs started so far
    val_passed,      \* per completed validation run: did >= 2 agents approve
    agent_calls,     \* stage -> number of run_agent calls of that stage
    saved,           \* the calls of save_output_data, in order
    files,           \* the output folder: out_path -> the text the file holds
    clock,           \* the wall clock, in seconds
    file_state,      \* the input file: "ok" | "tokens" | "missing" | "unreadable"
    run_indexes,     \* the run_index of each perform_conversion call, in order
    p_templates,     \* stage -> the request template of the stage's agents
    dispatched,      \* the requests process_data has handed to run_agent
    p_result,        \* the dict process_data returned (NoKeys until it returns)
    \* ---- response parser (validators.py) ----
    tg_pc,           \* "ready" before the parser is applied, "done" after
    tg_text,         \* the text handed to the parser, a sequence of tokens
    tg_found,        \* what get_str_between_tags returned for the verdict tags
    tg_parsed,       \* what parse_isvalid returned
    \* ---- captured logs of the file loop (converter.py) ----
    lg_pc,           \* "process" | "save" | "done" ("idle": the loop is not used)
    files_to_process,\* the files of the run, in the order of the loop
    file_idx,        \* position of the loop in files_to_process (1-based)
    log_details,     \* config.get("log_details", False)
    log_records,     \* LogCaptureHandler.log_records
    log_store,       \* the log files written so far, in order
    lg_history,      \* per loop pass: the file, how process_data and save_logs ended
    \* ---- generate_yaml_config (studio/config_builder/core/builder.py) ----
    gen_pc,          \* "setup" | "loop" | "done" ("idle": not used)
    retry_limit,     \* config["generation"]["retry_limit"]
    gen_attempt,     \* loop variable of the generation loop
    gen_calls,       \* number of client.convert_data calls so far
    previous_notes,  \* the notes handed to the next generation call
    gen_history,     \* what each pass of the loop met, in order
    gen_requests,    \* per generation call: the notes passed and the request
    gen_returned,    \* "" until the method returns, then "dict" | "None"
    gen_result,      \* the dict returned (NoKeys when there is none)
    \* ---- several runs of process_data on one config (data_flow.py) ----
    rn_pc,           \* "run" while files are processed ("idle": not used)
    rn_oracle,       \* file -> the messages its agents answer with
    rn_max_retries,  \* config["max_retries"]
    rn_cfg,          \* the agent dicts inside the shared config
    rn_history,      \* per process_data call: the file and the dict returned
    \* ---- CloudUDCClient.run_job / _poll_job (api_client.py) ----
    pl_pc,           \* "submit", "poll", "done" ("idle": not used)
    pl_max_wait,     \* max_wait, in seconds
    pl_clock,        \* time.time() - start at the last reading
    pl_polls,        \* what each GET of the job met, in order
    pl_result        \* the dict run_job returns (NoKeys while it runs)

consVars == <<agent_type, templates, raw_data, responses, max_workers, mode, pc,
              idx, results, task, future, calls, log, agent_cfg, finished>>
agentVars == <<ra_pc, ra_max_retries, ra_backoff, agent_config, provider_auth,
               ra_headers, attempt, net_calls, sleeps, last_error, ra_result>>
pipeVars == <<p_pc, max_retries, retry_count, p_idx, p_results, p_messages,
              pre_verification_results, validation_results, output_data,
              conv_response, conv_attempts, val_runs, val_passed, agent_calls,
              saved, files, clock, file_state, run_indexes, p_templates,
              dispatched, p_result>>
parseVars == <<tg_pc, tg_text, tg_found, tg_parsed>>
logVars == <<lg_pc, files_to_process, file_idx, log_details, log_records,
             log_store, lg_history>>
genVars == <<gen_pc, retry_limit, gen_attempt, gen_calls, previous_notes,
             gen_history, gen_requests, gen_returned, gen_result>>
runVars == <<rn_pc, rn_oracle, rn_max_retries, rn_cfg, rn_history>>
pollVars == <<pl_pc, pl_max_wait, pl_clock, pl_polls, pl_result>>
lateVars == <<runVars, pollVars>>
extraVars == <<parseVars, logVars, genVars, lateVars>>
vars == <<consVars, agentVars, pipeVars, extraVars>>

----------------------------------------------------------------------------
(* Bounds of the model *)

\* largest config["max_retries"] explored
MaxRetriesBound == 3
\* largest agent retry budget (retry_attempts) explored
MaxAttemptsBound == 3
\* largest retry_backoff base explored
MaxBackoffBound == 2

----------------------------------------------------------------------------
(* Python values *)

\* the empty dict {}
NoKeys == [k \in {} |-> TRUE]

\* None / a string, as returned by get_str_between_tags
None == [some |-> FALSE, text |-> <<>>]
Some(t) == [some |-> TRUE, text |-> t]

\* Python truthiness of an Optional[str]: None and "" are falsy
Truthy(o) == o.some /\ o.text # <<>>

\* dict.get(key) of a parsed outcome, as used in a boolean context
GetIsValid(r) == IF "isvalid" \in DOMAIN r THEN r.isvalid ELSE FALSE

Min(S) == CHOOSE m \in S : \A n \in S : m <= n

----------------------------------------------------------------------------
(* Response parser: validators.py get_str_between_tags, parse_isvalid;      *)
(* data_flow.py parse_output                                                *)

\* str.lower() on one token (re.IGNORECASE compares tags the same way)
Lower(t) ==
    CASE t = "True" -> "true"
      [] t = "TRUE" -> "true"
      [] t = "False" -> "false"
      [] t = "<ISVALID>" -> "<isvalid>"
      [] t = "</ISVALID>" -> "</isvalid>"
      [] t = "<OUTPUT>" -> "<output>"
      [] t = "</OUTPUT>" -> "</output>"
      [] OTHER -> t

IsSpace(t) == t \in {" ", "\n"}

RECURSIVE LStrip(_)
LStrip(s) == IF s # <<>> /\ IsSpace(Head(s)) THEN LStrip(Tail(s)) ELSE s

RECURSIVE RStrip(_)
RStrip(s) ==
    IF s # <<>> /\ IsSpace(s[Len(s)]) THEN RStrip(SubSeq(s, 1, Len(s) - 1)) ELSE s

\* str.strip()
Strip(s) == RStrip(LStrip(s))

\* re.search(start(.*?)end, s, DOTALL | IGNORECASE): the leftmost start tag that
\* has an end tag after it, and the first end tag after that start tag
\* (the slip: a greedy (.*) runs to the last end tag)
get_str_between_tags_Greedy(s_value, start_tag, end_tag) ==
    LET ends(i) == {j \in (i + 1)..Len(s_value) : Lower(s_value[j]) = end_tag}
        starts == {i \in 1..Len(s_value) :
                      Lower(s_value[i]) = start_tag /\ ends(i) # {}}
    IN  IF starts = {}
        THEN None
        ELSE LET i == Min(starts)
                 j == CHOOSE m \in ends(i) : \A n \in ends(i) : n <= m
             IN  Some(Strip(SubSeq(s_value, i + 1, j - 1)))
get_str_between_tags(s_value, start_tag, end_tag) ==
    LET ends(i) == {j \in (i + 1)..Len(s_value) : Lower(s_value[j]) = end_tag}
        starts == {i \in 1..Len(s_value) :
                      Lower(s_value[i]) = start_tag /\ ends(i) # {}}
    IN  IF starts = {}
        THEN None
        ELSE LET i == Min(starts)
                 j == Min(ends(i))
             IN  Some(Strip(SubSeq(s_value, i + 1, j - 1)))

\* isvalid_text.lower() == "true"
LowerIsTrue(text) == Len(text) = 1 /\ Lower(text[1]) = "true"

parse_isvalid(result_string) ==
    LET isvalid_text == get_str_between_tags(result_string, "<isvalid>", "</isvalid>")
        invalid_msg == get_str_between_tags(result_string, "<invalid_msg>",
                                            "</invalid_msg>")
        keys == (IF Truthy(isvalid_text) THEN {"isvalid"} ELSE {})
                \cup (IF Truthy(invalid_msg) THEN {"invalid_msg"} ELSE {})
    IN  [k \in keys |->
            IF k = "isvalid" THEN LowerIsTrue(isvalid_text.text)
            ELSE invalid_msg.text]

parse_output(message_content) ==
    get_str_between_tags(message_content, "<output>", "</output>")

----------------------------------------------------------------------------
(* Placeholders and payload builders: validators.py                         *)

Placeholders == {"{<!--Data-->}", "{<!--DateTime-->}", "{<!--RunIndex-->}",
                 "{<!--Output-->}", "{<!--PreviousConversionNotes-->}"}

\* validate_no_placeholders(text), text given by the placeholder tokens it contains
\* (the slip: the newest token is missing from the list)
validate_no_placeholders_Short(text) ==
    \A ph \in Placeholders \ {"{<!--PreviousConversionNotes-->}"} : ph \notin text
validate_no_placeholders(text) == \A ph \in Placeholders : ph \notin text

\* str.replace(token, payload) on a text given by the placeholder tokens it
\* contains: every occurrence goes, whatever the payload carries comes in
Replace(text, token, payload) ==
    IF token \in text THEN (text \ {token}) \cup payload ELSE text

\* build_verification_payload(agent, config)["request"]
build_verification_payload(template, raw) ==
    Replace(Replace(template, "{<!--Data-->}", raw), "{<!--DateTime-->}", {})

\* build_validation_payload(agent, config)["request"]
build_validation_payload(template, raw, output) ==
    Replace(Replace(Replace(template, "{<!--Data-->}", raw),
                    "{<!--Output-->}", output),
            "{<!--DateTime-->}", {})

----------------------------------------------------------------------------
(* 2-of-3 consensus runner: validators.py run_2of3_consensus,               *)
(* _run_2of3_sequential, _run_2of3_parallel                                 *)

\* indices of the three candidate agents
Agents == {0, 1, 2}

\* the messages run_agent can hand back to the runner
MsgTrue == [content |-> <<"<isvalid>", "True", "</isvalid>">>]
MsgFalse == [content |-> <<"<isvalid>", "false", "</isvalid>", "\n",
                           "<invalid_msg>", " ", "why", "</invalid_msg>">>]
MsgNoTag == [content |-> <<"why">>]
MsgError == [error |-> "HTTPError"]
Messages == {MsgTrue, MsgFalse, MsgNoTag, MsgError}

\* the request template every verifier/validator starts from
StdTemplate == {"{<!--Data-->}", "{<!--DateTime-->}"}

\* the converted output handed to the validation payload builder
cons_output_data == {}

\* the outcome appended for a request with unreplaced placeholders
PlaceholderOutcome ==
    [isvalid |-> FALSE, invalid_msg |-> <<"Unreplaced placeholders in request">>]

\* the outcome appended for a message that carries "error"
AgentErrorOutcome(message) ==
    [isvalid |-> FALSE, invalid_msg |-> <<"Agent error: ", message.error>>]

\* message -> outcome: the if "error" in message / else parse_isvalid branch
OutcomeOf(message) ==
    IF "error" \in DOMAIN message
    THEN AgentErrorOutcome(message)
    ELSE parse_isvalid(IF "content" \in DOMAIN message THEN message.content
                       ELSE <<>>)

\* payload_builder(agent, config)["request"] for agent i
payload_builder(i) ==
    IF agent_type = "verification"
    THEN build_verification_payload(templates[i], raw_data)
    ELSE build_validation_payload(templates[i], raw_data, cons_output_data)

\* results[0]["isvalid"] == results[1]["isvalid"]: a KeyError when an outcome
\* has no "isvalid" key, otherwise the comparison
AgreeRaises(rs) == "isvalid" \notin DOMAIN rs[1] \/ "isvalid" \notin DOMAIN rs[2]
\* slips of the agreement check: early exit only on two approvals / always
Agree_OnlyBothTrue(rs) == rs[1].isvalid /\ rs[2].isvalid
Agree_Always(rs) == rs[1].isvalid = rs[1].isvalid
Agree_FirstApproves(rs) == rs[1].isvalid
Agree(rs) == rs[1].isvalid = rs[2].isvalid

\* results.append(result_0); results.append(result_1): positional collection
\* (the slips: collected in the opposite order / in order of completion)
JoinResults_Swapped(result_0, result_1) == <<result_1, result_0>>
JoinResults_CompletionOrder(result_0, result_1) ==
    LET last(i) == CHOOSE k \in DOMAIN log :
                      log[k][2] = i /\ log[k][1] \in {"end", "skip"}
    IN  IF last(1) < last(0) THEN <<result_1, result_0>>
        ELSE <<result_0, result_1>>
JoinResults(result_0, result_1) == <<result_0, result_1>>

\* the keys prepare_agent writes, each with the value it takes from config
PreparedKeys == {"base_url", "endpoint", "default_model", "default_temperature"}
ConfigValue(k) ==
    CASE k = "base_url" -> "api_base_url"
      [] k = "endpoint" -> "default_endpoint"
      [] k = "default_model" -> "default_model"
      [] k = "default_temperature" -> "default_temperature"

\* one agent dict after prepare_agent
Prepared(agent) ==
    [k \in DOMAIN agent \cup PreparedKeys |->
        IF k \in PreparedKeys THEN ConfigValue(k) ELSE agent[k]]

\* prepare_agent(agents[i], config): the runtime attributes are written onto
\* the dict of agent i
\* (the slip: the attributes are written onto every agent's dict)
prepare_agent_All(cfgs, i) == [j \in DOMAIN cfgs |-> Prepared(cfgs[j])]
prepare_agent(cfgs, i) == [cfgs EXCEPT ![i] = Prepared(@)]

\* success_count = sum(1 for r in results if r.get("isvalid"))
success_count(rs) == Cardinality({k \in DOMAIN rs : GetIsValid(rs[k])})

\* ThreadPoolExecutor(max_workers=min(2, max_workers))
PoolSize == IF max_workers < 2 THEN max_workers ELSE 2

NoCalls == [i \in Agents |-> 0]
NoRun == [status |-> "none", outcomes |-> <<>>, calls |-> NoCalls, log |-> <<>>]
Modes == {"sequential", "parallel"}

\* the run in progress ends: it returns its results or an exception leaves it
EndRun(status, rs, cs, lg) ==
    /\ finished' = [finished EXCEPT ![mode] =
                       [status |-> status, outcomes |-> rs, calls |-> cs, log |-> lg]]
    /\ mode' = "none"
    /\ pc' = "idle"
    /\ idx' = 0
    /\ results' = <<>>
    /\ calls' = NoCalls
    /\ log' = <<>>

consInputs == <<agent_type, templates, raw_data, responses, max_workers>>

\* run_2of3_consensus: dispatch on config["parallel_agents"]
run_2of3_consensus ==
    /\ mode = "none"
    /\ \E parallel_enabled \in BOOLEAN :
          LET m == IF parallel_enabled THEN "parallel" ELSE "sequential"
          IN  /\ finished[m] = NoRun
              /\ mode' = m
              /\ pc' = IF parallel_enabled THEN "submit" ELSE "loop"
    /\ idx' = 0
    /\ results' = <<>>
    /\ calls' = NoCalls
    /\ log' = <<>>
    /\ task' = [i \in {0, 1} |-> "idle"]
    /\ future' = [i \in {0, 1} |-> <<>>]
    /\ UNCHANGED <<consInputs, agent_cfg, finished, agentVars,
                   pipeVars, extraVars>>

\* for idx, agent in enumerate(agents): the index of the next iteration
\* (the slip: the candidates are taken in the order 0, 2, 1)
enumerate_next_Shuffled(i) == IF i = 0 THEN 2 ELSE IF i = 2 THEN 1 ELSE 3
enumerate_next(i) == i + 1

\* sequential loop, top of iteration idx: may the body run?
\* (the idx == 2 and len(results) == 2 check)
SeqBodyRuns ==
    idx = 2 /\ Len(results) = 2 => ~AgreeRaises(results) /\ ~Agree(results)

\* idx == 2: the agreement check finds an outcome without "isvalid"
SeqCheckRaises ==
    /\ mode = "sequential" /\ pc = "loop"
    /\ idx = 2 /\ Len(results) = 2
    /\ AgreeRaises(results)
    /\ EndRun("raised", results, calls, log)
    /\ UNCHANGED <<consInputs, task, future, agent_cfg, agentVars,
                   pipeVars, extraVars>>

\* idx == 2: the first two agree, the third agent is skipped
SeqEarlyExit ==
    /\ mode = "sequential" /\ pc = "loop"
    /\ idx = 2 /\ Len(results) = 2
    /\ ~AgreeRaises(results) /\ Agree(results)
    /\ EndRun("returned", results, calls, log)
    /\ UNCHANGED <<consInputs, task, future, agent_cfg, agentVars,
                   pipeVars, extraVars>>

\* the request of agent idx keeps a placeholder: negative outcome, continue
SeqPlaceholder ==
    /\ mode = "sequential" /\ pc = "loop"
    /\ idx \in Agents
    /\ SeqBodyRuns
    /\ agent_cfg' = prepare_agent(agent_cfg, idx)
    /\ ~validate_no_placeholders(payload_builder(idx))
    /\ LET rs == Append(results, PlaceholderOutcome)
           lg == Append(log, <<"skip", idx>>)
       IN  IF idx = 2
           THEN EndRun("returned", rs, calls, lg)
           ELSE /\ results' = rs
                /\ log' = lg
                /\ idx' = enumerate_next(idx)
                /\ UNCHANGED <<mode, pc, calls, finished>>
    /\ UNCHANGED <<consInputs, task, future, agentVars, pipeVars, extraVars>>

\* agent idx is run and its outcome appended; after the second agent the
\* agreement check decides whether the loop goes on
SeqRunAgent ==
    /\ mode = "sequential" /\ pc = "loop"
    /\ idx \in Agents
    /\ SeqBodyRuns
    /\ agent_cfg' = prepare_agent(agent_cfg, idx)
    /\ validate_no_placeholders(payload_builder(idx))
    /\ LET rs == Append(results, OutcomeOf(responses[idx]))
           cs == [calls EXCEPT ![idx] = @ + 1]
           lg == log \o << <<"begin", idx>>, <<"end", idx>> >>
       IN  IF idx = 1 /\ AgreeRaises(rs)
           THEN EndRun("raised", rs, cs, lg)
           ELSE IF (idx = 1 /\ Agree(rs)) \/ idx = 2
           THEN EndRun("returned", rs, cs, lg)
           ELSE /\ results' = rs
                /\ calls' = cs
                /\ log' = lg
                /\ idx' = enumerate_next(idx)
                /\ UNCHANGED <<mode, pc, finished>>
    /\ UNCHANGED <<consInputs, task, future, agentVars, pipeVars, extraVars>>

\* parallel mode, phase 1: both futures are submitted
ParSubmit ==
    /\ mode = "parallel" /\ pc = "submit"
    /\ task' = [i \in {0, 1} |-> "queued"]
    /\ pc' = "join"
    /\ UNCHANGED <<consInputs, mode, idx, results, future, calls, log, agent_cfg,
                   finished, agentVars, pipeVars, extraVars>>

\* the tasks a pool worker is executing
Running == {i \in {0, 1} : task[i] = "calling"}

\* the queued tasks submitted before task i: the work queue is first-in
\* first-out, so each of them is dequeued before task i is
QueuedBefore(i) == {j \in {0, 1} : j < i /\ task[j] = "queued"}

\* a pool worker that has dequeued task i starts executing it (with two
\* workers the two tasks start in either order): run_single_agent up to the
\* call of run_agent, or to its return when a placeholder is left
ParTaskStart(i) ==
    /\ mode = "parallel"
    /\ task[i] = "queued"
    /\ Cardinality(Running) + Cardinality(QueuedBefore(i)) < PoolSize
    /\ agent_cfg' = prepare_agent(agent_cfg, i)
    /\ IF ~validate_no_placeholders(payload_builder(i))
       THEN /\ task' = [task EXCEPT ![i] = "done"]
            /\ future' = [future EXCEPT ![i] = <<PlaceholderOutcome>>]
            /\ log' = Append(log, <<"skip", i>>)
            /\ UNCHANGED calls
       ELSE /\ task' = [task EXCEPT ![i] = "calling"]
            /\ calls' = [calls EXCEPT ![i] = @ + 1]
            /\ log' = Append(log, <<"begin", i>>)
            /\ UNCHANGED future
    /\ UNCHANGED <<consInputs, mode, pc, idx, results, finished, agentVars,
                   pipeVars, extraVars>>

\* run_agent returns inside a worker: the outcome becomes the future's result
ParTaskFinish(i) ==
    /\ mode = "parallel"
    /\ task[i] = "calling"
    /\ task' = [task EXCEPT ![i] = "done"]
    /\ future' = [future EXCEPT ![i] = <<OutcomeOf(responses[i])>>]
    /\ log' = Append(log, <<"end", i>>)
    /\ UNCHANGED <<consInputs, mode, pc, idx, results, calls, agent_cfg, finished,
                   agentVars, pipeVars, extraVars>>

\* future_0.result(); future_1.result() and the end of the with block: the
\* main thread goes on when both run_single_agent calls have returned
\* (the slips: it goes on when one of them has returned / it goes on when
\* one of them has returned a failure)
Joined_AnyDone == task[0] = "done" \/ task[1] = "done"
Joined_FailFast ==
    \/ task[0] = "done" /\ task[1] = "done"
    \/ \E i \in {0, 1} :
          /\ task[i] = "done"
          /\ "error" \in DOMAIN responses[i]
          /\ future[i] = <<AgentErrorOutcome(responses[i])>>
Joined == task[0] = "done" /\ task[1] = "done"

\* what future_i.result() hands back (no result before the task is done)
FutureResult(i) == IF future[i] = <<>> THEN NoKeys ELSE future[i][1]

\* both futures are done: collect positionally, then the agreement check
ParJoin ==
    /\ mode = "parallel" /\ pc = "join"
    /\ Joined
    /\ LET rs == JoinResults(FutureResult(0), FutureResult(1))
       IN  IF AgreeRaises(rs)
           THEN EndRun("raised", rs, calls, log)
           ELSE IF Agree(rs)
           THEN EndRun("returned", rs, calls, log)
           ELSE /\ results' = rs
                /\ pc' = "phase3"
                /\ UNCHANGED <<mode, idx, calls, log, finished>>
    /\ UNCHANGED <<consInputs, task, future, agent_cfg, agentVars,
                   pipeVars, extraVars>>

\* phase 3: the first two disagree, the tie-breaker runs in the main thread
ParPhase3 ==
    /\ mode = "parallel" /\ pc = "phase3"
    /\ agent_cfg' = prepare_agent(agent_cfg, 2)
    /\ IF ~validate_no_placeholders(payload_builder(2))
       THEN EndRun("returned", Append(results, PlaceholderOutcome), calls,
                   Append(log, <<"skip", 2>>))
       ELSE EndRun("returned", Append(results, OutcomeOf(responses[2])),
                   [calls EXCEPT ![2] = @ + 1],
                   log \o << <<"begin", 2>>, <<"end", 2>> >>)
    /\ UNCHANGED <<consInputs, task, future, agentVars, pipeVars, extraVars>>

\* the parts of the state the consensus runner does not use
ParseIdle ==
    /\ tg_pc = "idle" /\ tg_text = <<>> /\ tg_found = None /\ tg_parsed = NoKeys

LogIdle ==
    /\ lg_pc = "idle" /\ files_to_process = <<>> /\ file_idx = 0
    /\ log_details = FALSE /\ log_records = <<>> /\ log_store = <<>>
    /\ lg_history = <<>>
GenIdle ==
    /\ gen_pc = "idle" /\ retry_limit = 0 /\ gen_attempt = 0 /\ gen_calls = 0
    /\ previous_notes = "" /\ gen_history = <<>> /\ gen_returned = ""
    /\ gen_requests = <<>>
    /\ gen_result = NoKeys
RunIdle ==
    /\ rn_pc = "idle" /\ rn_oracle = NoKeys /\ rn_max_retries = 0
    /\ rn_cfg = NoKeys /\ rn_history = <<>>
PollIdle ==
    /\ pl_pc = "idle" /\ pl_max_wait = 0 /\ pl_clock = 0 /\ pl_polls = <<>>
    /\ pl_result = NoKeys
LateIdle == RunIdle /\ PollIdle
ExtraIdle == ParseIdle /\ LogIdle /\ GenIdle /\ LateIdle

AgentIdle ==
    /\ ra_pc = "idle" /\ ra_max_retries = 0 /\ ra_backoff = 0
    /\ agent_config = [providers |-> {}] /\ attempt = 0 /\ net_calls = <<>>
    /\ provider_auth = [auth_header |-> "", auth_prefix |-> "", api_key |-> ""]
    /\ ra_headers = NoKeys
    /\ sleeps = <<>> /\ last_error = "None" /\ ra_result = NoKeys

PipeIdle ==
    /\ p_pc = "idle" /\ max_retries = 0 /\ retry_count = 0 /\ p_idx = 0
    /\ p_results = <<>> /\ p_messages = <<>>
    /\ pre_verification_results = <<>>
    /\ validation_results = <<>> /\ output_data = None
    /\ conv_response = NoKeys /\ conv_attempts = 0 /\ val_runs = 0
    /\ val_passed = <<>>
    /\ agent_calls = [s \in {"verify", "convert", "validate"} |-> 0]
    /\ saved = <<>> /\ files = NoKeys /\ clock = 0 /\ p_result = NoKeys
    /\ p_templates = [s \in {"verify", "convert", "validate"} |-> {}]
    /\ dispatched = {} /\ file_state = "ok" /\ run_indexes = <<>>

ConsIdle ==
    /\ agent_type = "verification" /\ templates = [i \in Agents |-> {}]
    /\ raw_data = {} /\ responses = [i \in Agents |-> MsgTrue]
    /\ max_workers = 0 /\ mode = "none" /\ pc = "idle" /\ idx = 0
    /\ results = <<>> /\ task = [i \in {0, 1} |-> "idle"]
    /\ future = [i \in {0, 1} |-> <<>>] /\ calls = NoCalls /\ log = <<>>
    /\ agent_cfg = [i \in Agents |-> NoKeys]
    /\ finished = [m \in Modes |-> NoRun]

\* the candidate set, the payloads and the agents' answers of one decision
InitConsensus ==
    /\ agent_type \in {"verification", "validation"}
    /\ \E extra \in Placeholders :
          \E has \in [Agents -> BOOLEAN] :
             templates = [i \in Agents |->
                             StdTemplate \cup (IF has[i] THEN {extra} ELSE {})]
    /\ raw_data \in {{}, {"{<!--Data-->}"}}
    /\ responses \in [Agents -> Messages]
    /\ max_workers \in 1..3
    /\ mode = "none" /\ pc = "idle" /\ idx = 0 /\ results = <<>>
    /\ task = [i \in {0, 1} |-> "idle"]
    /\ future = [i \in {0, 1} |-> <<>>]
    /\ calls = NoCalls /\ log = <<>>
    /\ agent_cfg = [i \in Agents |-> NoKeys]
    /\ finished = [m \in Modes |-> NoRun]
    /\ AgentIdle /\ PipeIdle /\ ExtraIdle

NextConsensus ==
    \/ run_2of3_consensus
    \/ SeqCheckRaises
    \/ SeqEarlyExit
    \/ SeqPlaceholder
    \/ SeqRunAgent
    \/ ParSubmit
    \/ \E i \in {0, 1} : ParTaskStart(i)
    \/ \E i \in {0, 1} : ParTaskFinish(i)
    \/ ParJoin
    \/ ParPhase3

SpecConsensus == InitConsensus /\ [][NextConsensus]_vars

----------------------------------------------------------------------------
(* run_agent: validators.py, the provider check and the retry loop          *)

\* what one requests.post + raise_for_status + parse_provider_response does:
\* a 2xx answer of the expected shape, a RequestException (two kinds, so that
\* the last one can be told from the others), or a 2xx answer whose body has
\* not the provider's shape (parse_provider_response raises KeyError, which
\* the except clause does not catch)
PostOk == [kind |-> "ok", content |-> MsgTrue.content]
PostOutcomes ==
    {PostOk,
     [kind |-> "fail", error |-> "ConnectionError"],
     [kind |-> "fail", error |-> "HTTPError 503"],
     [kind |-> "malformed"]}

\* the authentication settings of the resolved provider: the header name
\* and prefix of provider_config, and api_keys.get(provider, ""); a key that
\* is not set reads as ""
ProviderAuths ==
    [auth_header : {"", "Authorization"}, auth_prefix : {"", "Bearer"},
     api_key : {"", "sk-key"}]

\* build_provider_headers: the content type, and the auth header when the
\* provider names one and a key is there (else a warning is logged)
\* (the version header, which no key enters, is left out)
\* (the slip: the header is sent with whatever api_keys.get returned)
build_provider_headers_EmptyKey(auth) ==
    [h \in {"Content-Type"}
           \cup (IF auth.auth_header # "" THEN {auth.auth_header} ELSE {}) |->
        IF h = "Content-Type" THEN <<"application/json">>
        ELSE IF auth.auth_prefix # ""
        THEN <<auth.auth_prefix, " ", auth.api_key>>
        ELSE <<auth.api_key>>]
build_provider_headers(auth) ==
    [h \in {"Content-Type"}
           \cup (IF auth.auth_header # "" /\ auth.api_key # ""
                 THEN {auth.auth_header} ELSE {}) |->
        IF h = "Content-Type" THEN <<"application/json">>
        ELSE IF auth.auth_prefix # ""
        THEN <<auth.auth_prefix, " ", auth.api_key>>
        ELSE <<auth.api_key>>]

\* what a post with these headers can end in: a provider that expects the
\* auth header may also refuse a request without it (raise_for_status then
\* raises an HTTPError, a RequestException like the others)
PostOutcomesFor(auth, headers) ==
    PostOutcomes
    \cup (IF auth.auth_header # "" /\ auth.auth_header \notin DOMAIN headers
          THEN {[kind |-> "fail", error |-> "HTTPError 401"]}
          ELSE {})

RECURSIVE Pow(_, _)
\* backoff ** attempt
Pow(b, e) == IF e = 0 THEN 1 ELSE b * Pow(b, e - 1)

\* wait_time = backoff ** attempt
\* (the slip: the wait grows linearly with the attempt number)
wait_time_Linear(backoff, a) == backoff * a
wait_time(backoff, a) == Pow(backoff, a)

\* result["_metadata"] of a successful call
\* (the slip: the 1-based attempt number is reported)
SuccessMetadata_OneBased(a) == [provider |-> "local", retry_count |-> a + 1]
SuccessMetadata(a) == [provider |-> "local", retry_count |-> a]

\* the provider ids a configuration may name
ProviderIds == {"local", "openai"}

\* agent_config as far as the provider is resolved from it: the configured
\* providers, and the optional keys "provider" and "default_provider"
AgentConfigs ==
    LET base == {[providers |-> P] : P \in SUBSET ProviderIds}
    IN  base
        \cup {[providers |-> b.providers, provider |-> p] :
                 b \in base, p \in ProviderIds}
        \cup {[providers |-> b.providers, default_provider |-> d] :
                 b \in base, d \in ProviderIds}
        \cup {[providers |-> b.providers, provider |-> p, default_provider |-> d] :
                 b \in base, p \in ProviderIds, d \in ProviderIds}

\* agent_config.get("provider", agent_config.get("default_provider", "local"))
\* (the slip: the agent's own "provider" key is not looked at)
get_provider_DefaultOnly(cfg) ==
    IF "default_provider" \in DOMAIN cfg THEN cfg.default_provider ELSE "local"
get_provider(cfg) ==
    IF "provider" \in DOMAIN cfg THEN cfg.provider
    ELSE IF "default_provider" \in DOMAIN cfg THEN cfg.default_provider
    ELSE "local"

\* if provider not in providers
provider_not_configured(cfg) == get_provider(cfg) \notin cfg.providers

\* the dict returned when provider not in providers
ProviderError(provider) ==
    [error |-> <<"Provider", provider, "not configured">>,
     _metadata |-> [failed |-> TRUE]]

\* the dict returned after the loop: all retries exhausted
\* (the slip: the index of the last attempt is reported)
ExhaustedError_LastIndex(err, n) ==
    [error |-> err, _metadata |-> [failed |-> TRUE, retry_count |-> n - 1]]
ExhaustedError(err, n) ==
    [error |-> err, _metadata |-> [failed |-> TRUE, retry_count |-> n]]

\* run_agent up to the retry loop: the provider check
RunAgentStart ==
    /\ ra_pc = "start"
    /\ IF provider_not_configured(agent_config)
       THEN /\ ra_result' = ProviderError(get_provider(agent_config))
            /\ ra_pc' = "done"
            /\ UNCHANGED ra_headers
       ELSE /\ ra_headers' = build_provider_headers(provider_auth)
            /\ ra_pc' = "loop"
            /\ UNCHANGED ra_result
    /\ UNCHANGED <<ra_max_retries, ra_backoff, agent_config, provider_auth,
                   attempt, net_calls, sleeps, last_error, consVars, pipeVars,
                   extraVars>>

\* one pass of the try block: the network call and what follows from it
RunAgentPost ==
    /\ ra_pc = "loop"
    /\ attempt < ra_max_retries
    /\ \E o \in PostOutcomesFor(provider_auth, ra_headers) :
          /\ net_calls' = Append(net_calls, o)
          /\ CASE o.kind = "ok" ->
                    /\ ra_result' = [role |-> "assistant", content |-> o.content,
                                     _metadata |-> SuccessMetadata(attempt)]
                    /\ ra_pc' = "done"
                    /\ UNCHANGED <<attempt, last_error>>
               [] o.kind = "malformed" ->
                    /\ ra_result' = [raised |-> "KeyError"]
                    /\ ra_pc' = "done"
                    /\ UNCHANGED <<attempt, last_error>>
               [] o.kind = "fail" ->
                    /\ last_error' = o.error
                    /\ IF attempt < ra_max_retries - 1
                       THEN ra_pc' = "sleep" /\ UNCHANGED attempt
                       ELSE ra_pc' = "loop" /\ attempt' = attempt + 1
                    /\ UNCHANGED ra_result
    /\ UNCHANGED <<ra_max_retries, ra_backoff, agent_config, provider_auth,
                   ra_headers, sleeps, consVars, pipeVars, extraVars>>

\* time.sleep(wait_time), then the next pass of the loop
RunAgentSleep ==
    /\ ra_pc = "sleep"
    /\ sleeps' = Append(sleeps, wait_time(ra_backoff, attempt))
    /\ attempt' = attempt + 1
    /\ ra_pc' = "loop"
    /\ UNCHANGED <<ra_max_retries, ra_backoff, agent_config, provider_auth,
                   ra_headers, net_calls, last_error, ra_result, consVars,
                   pipeVars, extraVars>>

\* the loop is over without a return: the terminal error dict
RunAgentExhausted ==
    /\ ra_pc = "loop"
    /\ attempt >= ra_max_retries
    /\ ra_result' = ExhaustedError(last_error, ra_max_retries)
    /\ ra_pc' = "done"
    /\ UNCHANGED <<ra_max_retries, ra_backoff, agent_config, provider_auth,
                   ra_headers, attempt, net_calls, sleeps, last_error, consVars,
                   pipeVars, extraVars>>

InitAgent ==
    /\ ra_pc = "start"
    /\ ra_max_retries \in 0..MaxAttemptsBound
    /\ ra_backoff \in 1..MaxBackoffBound
    /\ agent_config \in AgentConfigs
    /\ provider_auth \in ProviderAuths
    /\ ra_headers = NoKeys
    /\ attempt = 0 /\ net_calls = <<>> /\ sleeps = <<>>
    /\ last_error = "None" /\ ra_result = NoKeys
    /\ ConsIdle /\ PipeIdle /\ ExtraIdle

NextAgent ==
    \/ RunAgentStart
    \/ RunAgentPost
    \/ RunAgentSleep
    \/ RunAgentExhausted

SpecAgent == InitAgent /\ [][NextAgent]_vars

----------------------------------------------------------------------------
(* The pipeline: data_flow.py process_data with _verify_input_data_2of3,    *)
(* perform_conversion, _validate_output_2of3 and save_output_data           *)

\* the messages run_agent can hand back for the conversion agent: an output
\* section (two different texts), an empty output section, no output tags,
\* an empty content, an error dict
ConvOutA == [content |-> <<"<output>", " ", "csv-a", "\n", "</output>">>]
ConvOutB == [content |-> <<"note", "<OUTPUT>", "csv-b", "</output>">>]
ConvEmptyOut == [content |-> <<"<output>", "</output>">>]
ConvNoTags == [content |-> <<"csv-a">>]
ConvNoContent == [content |-> <<>>]
ConvMessages == {ConvOutA, ConvOutB, ConvEmptyOut, ConvNoTags, ConvNoContent,
                 MsgError}

\* one pass of the for loop of _verify_input_data_2of3 / _validate_output_2of3
\* with the message run_agent returned: how the pass ends and the results list
\*   "raise"    a KeyError leaves the function (message["content"] of an error
\*              dict, or ["isvalid"] of an outcome without verdict); exc is it
\*   "return"   the loop is over (break, or the third agent is through)
\*   "continue" the next agent follows
LoopPass(rs, i, message) ==
    IF i = 2 /\ Len(rs) = 2 /\ AgreeRaises(rs)
    THEN [kind |-> "raise", results |-> rs, called |-> FALSE,
          exc |-> "KeyError: 'isvalid'"]
    ELSE IF i = 2 /\ Len(rs) = 2 /\ Agree(rs)
    THEN [kind |-> "return", results |-> rs, called |-> FALSE, exc |-> "None"]
    ELSE IF "content" \notin DOMAIN message
    THEN [kind |-> "raise", results |-> rs, called |-> TRUE,
          exc |-> "KeyError: 'content'"]
    ELSE LET rs2 == Append(rs, parse_isvalid(message.content))
         IN  IF i = 1 /\ AgreeRaises(rs2)
             THEN [kind |-> "raise", results |-> rs2, called |-> TRUE,
                   exc |-> "KeyError: 'isvalid'"]
             ELSE IF (i = 1 /\ Agree(rs2)) \/ i = 2
             THEN [kind |-> "return", results |-> rs2, called |-> TRUE,
                   exc |-> "None"]
             ELSE [kind |-> "continue", results |-> rs2, called |-> TRUE,
                   exc |-> "None"]

\* if success_count < 2 (pre-conversion verification)
\* (the slip: one approval is enough)
VerificationFails_One(rs) == success_count(rs) < 1
VerificationFails(rs) == success_count(rs) < 2

\* if val_success_count >= 2
\* (the slip: one approval is enough)
ValidationPasses_One(rs) == success_count(rs) >= 1
ValidationPasses_Always(rs) == TRUE
ValidationPasses(rs) == success_count(rs) >= 2

\* while retry_count < max_retries
\* (the slip: one pass too many)
WhileCondition_Inclusive(rc, mr) == rc <= mr
WhileCondition(rc, mr) == rc < mr

\* after retry_count += 1 the run is back at the head of the while loop
\* (the slip: the retry starts over at the pre-verification)
StageAfterRejection_Reverify == "verify"
StageAfterRejection == "while"

\* conversion_content = conv_response.get("content") ...;
\* output_data = parse_output(conversion_content) if conversion_content else None
\* (the slip: a response without output section counts as an empty output)
conversion_output_Lenient(conv) ==
    IF "content" \in DOMAIN conv /\ conv.content # <<>>
          /\ parse_output(conv.content).some
    THEN parse_output(conv.content)
    ELSE Some(<<>>)
conversion_output(conv) ==
    IF "content" \in DOMAIN conv /\ conv.content # <<>>
    THEN parse_output(conv.content)
    ELSE None

\* the dicts process_data returns
LoadErrorResult == [error |-> "Could not load file", file_path |-> "in.csv"]
PreVerificationFailedResult(rs) ==
    [status |-> "pre-verification_failed", pre_verification_results |-> rs,
     file_path |-> "in.csv"]
ConversionErrorResult(conv) ==
    [status |-> "conversion_error", conversion_response |-> conv,
     file_path |-> "in.csv"]
SuccessResult(rs) ==
    [status |-> "success", validation |-> rs, output_path |-> "saved"]
FailedResult(rs, rc) ==
    [status |-> "failed", validation |-> rs, retries |-> rc, file_path |-> "in.csv"]
\* an exception leaves process_data
Raised(exc) == [raised |-> exc]

\* file paths: the directory and the dot-separated parts of the file name
InputFile == [dir |-> "data", name |-> <<"in", "csv">>]

\* os.path.splitext(os.path.basename(file_path))[0]: the directory and the
\* last extension are dropped
basename(file_path) ==
    IF Len(file_path.name) > 1
    THEN SubSeq(file_path.name, 1, Len(file_path.name) - 1)
    ELSE file_path.name

\* out_path = os.path.join(output_dir, f"{basename}-{timestamp}.{file_ext}"),
\* the timestamp being time.strftime("%Y%m%d-%H%M%S"): the second of the call
out_path(file_path, now) ==
    [folder |-> "output_dir", basename |-> basename(file_path),
     timestamp |-> now, ext |-> "file_ext"]

\* save_output_data: the file at out_path is opened with "w" and written; an
\* exception (folder or file not writable) is logged and swallowed
save_output_data(fs, text, file_path, now, written) ==
    IF written
    THEN [q \in DOMAIN fs \cup {out_path(file_path, now)} |->
             IF q = out_path(file_path, now) THEN text ELSE fs[q]]
    ELSE fs

\* one call of save_output_data, as recorded in saved
SaveCall(text, file_path, now, written) ==
    [text |-> text, written |-> written, out_path |-> out_path(file_path, now)]

Stages == {"verify", "convert", "validate"}

\* the placeholder tokens a text (a sequence of tokens) contains
PlaceholdersIn(text) == {text[k] : k \in DOMAIN text} \cap Placeholders

\* the requests the orchestrator builds, each by the placeholder tokens left
\* in it: _verify_input_data_2of3 replaces the data token only,
verification_request(template, raw) == Replace(template, "{<!--Data-->}", raw)

\* _validate_output_2of3 the data, output and timestamp tokens,
validation_request(template, raw, output) ==
    Replace(Replace(Replace(template, "{<!--Data-->}", raw),
                    "{<!--Output-->}", output),
            "{<!--DateTime-->}", {})

\* perform_conversion the data, run-index and timestamp tokens
conversion_request(template, raw) ==
    Replace(Replace(Replace(template, "{<!--Data-->}", raw),
                    "{<!--RunIndex-->}", {}),
            "{<!--DateTime-->}", {})
pipeInputs == <<max_retries>>

\* the states the input file can be in ("tokens": it can be read, and its
\* text contains a placeholder token)
FileStates == {"ok", "tokens", "missing", "unreadable"}

\* load_file(file_path): the text of the file; None when the file does not
\* exist or reading it raises (the exception is logged and swallowed)
\* (the slip: a file that cannot be read counts as an empty text)
load_file_Lenient(state) == IF state = "missing" THEN None ELSE Some(<<>>)
load_file(state) ==
    IF state = "ok" THEN Some(<<"csv-in">>)
    ELSE IF state = "tokens" THEN Some(<<"csv-in", "{<!--Output-->}">>)
    ELSE None

\* raw_data, by the placeholder tokens it contains
file_text == PlaceholdersIn(load_file(file_state).text)

\* perform_conversion(raw_data, config, retry_count): the run_index passed
\* (the slip: the attempt number, counted from 1)
run_index_OneBased(rc) == rc + 1
run_index(rc) == rc

\* raw_data = load_file(file_path); None ends the run with the load error
LoadFile ==
    /\ p_pc = "start"
    /\ IF load_file(file_state) # None
       THEN /\ p_pc' = "verify"
            /\ UNCHANGED p_result
       ELSE /\ p_pc' = "done"
            /\ p_result' = LoadErrorResult
    /\ p_idx' = 0
    /\ p_results' = <<>>
    /\ p_messages' = <<>>
    /\ UNCHANGED <<max_retries, file_state, run_indexes, p_templates,
                   dispatched, retry_count, pre_verification_results, validation_results, output_data,
                   conv_response, conv_attempts, val_runs, val_passed,
                   agent_calls, saved, files, clock, consVars,
                   agentVars, extraVars>>

\* one verification agent is run; when the loop is over, the 2/3 rule decides
VerifyAgent ==
    /\ p_pc = "verify"
    /\ \E message \in Messages :
          LET pass == LoopPass(p_results, p_idx, message)
          IN  /\ agent_calls' = [agent_calls EXCEPT !["verify"] =
                                    IF pass.called THEN @ + 1 ELSE @]
              /\ p_messages' = IF pass.called THEN Append(p_messages, message)
                               ELSE p_messages
              /\ dispatched' =
                    IF pass.called
                    THEN dispatched \cup
                           {[stage |-> "verify",
                             request |-> verification_request(
                                            p_templates["verify"], file_text)]}
                    ELSE dispatched
              /\ CASE pass.kind = "raise" ->
                        /\ p_result' = Raised(pass.exc)
                        /\ p_pc' = "done"
                        /\ p_results' = pass.results
                        /\ UNCHANGED <<p_idx, pre_verification_results>>
                   [] pass.kind = "continue" ->
                        /\ p_results' = pass.results
                        /\ p_idx' = p_idx + 1
                        /\ UNCHANGED <<p_pc, p_result, pre_verification_results>>
                   [] pass.kind = "return" ->
                        /\ pre_verification_results' = pass.results
                        /\ p_results' = <<>>
                        /\ p_idx' = 0
                        /\ IF VerificationFails(pass.results)
                           THEN /\ p_result' = PreVerificationFailedResult(pass.results)
                                /\ p_pc' = "done"
                           ELSE /\ p_pc' = "while"
                                /\ UNCHANGED p_result
    /\ UNCHANGED <<max_retries, file_state, run_indexes, p_templates,
                   retry_count, validation_results,
                   output_data, conv_response, conv_attempts, val_runs,
                   val_passed, saved, files, clock, consVars,
                   agentVars, extraVars>>

\* one pass of the while loop up to the validation: perform_conversion and
\* the extraction of the output section
Convert ==
    /\ p_pc = "while"
    /\ WhileCondition(retry_count, max_retries)
    /\ \E conv \in ConvMessages :
          /\ conv_response' = conv
          /\ conv_attempts' = conv_attempts + 1
          /\ agent_calls' = [agent_calls EXCEPT !["convert"] = @ + 1]
          /\ run_indexes' = Append(run_indexes, run_index(retry_count))
          /\ dispatched' = dispatched \cup
                {[stage |-> "convert",
                  request |-> conversion_request(p_templates["convert"],
                                                 file_text)]}
          /\ output_data' = conversion_output(conv)
          /\ IF conversion_output(conv) = None
             THEN /\ p_result' = ConversionErrorResult(conv)
                  /\ p_pc' = "done"
                  /\ UNCHANGED val_runs
             ELSE /\ p_pc' = "validate"
                  /\ val_runs' = val_runs + 1
                  /\ UNCHANGED p_result
    /\ p_idx' = 0
    /\ p_results' = <<>>
    /\ p_messages' = <<>>
    /\ UNCHANGED <<max_retries, file_state, p_templates, retry_count,
                   pre_verification_results, validation_results, val_passed,
                   saved, files, clock, consVars, agentVars, extraVars>>

\* one validation agent is run; when the loop is over, the 2/3 rule decides:
\* save and success, or one more retry
ValidateAgent ==
    /\ p_pc = "validate"
    /\ \E message \in Messages :
          LET pass == LoopPass(p_results, p_idx, message)
          IN  /\ agent_calls' = [agent_calls EXCEPT !["validate"] =
                                    IF pass.called THEN @ + 1 ELSE @]
              /\ p_messages' = IF pass.called THEN Append(p_messages, message)
                               ELSE p_messages
              /\ dispatched' =
                    IF pass.called
                    THEN dispatched \cup
                           {[stage |-> "validate",
                             request |-> validation_request(
                                            p_templates["validate"], file_text,
                                            PlaceholdersIn(output_data.text))]}
                    ELSE dispatched
              /\ CASE pass.kind = "raise" ->
                        /\ p_result' = Raised(pass.exc)
                        /\ p_pc' = "done"
                        /\ p_results' = pass.results
                        /\ UNCHANGED <<p_idx, validation_results, val_passed,
                                       retry_count, saved, files>>
                   [] pass.kind = "continue" ->
                        /\ p_results' = pass.results
                        /\ p_idx' = p_idx + 1
                        /\ UNCHANGED <<p_pc, p_result, validation_results,
                                       val_passed, retry_count, saved, files>>
                   [] pass.kind = "return" ->
                        /\ validation_results' = pass.results
                        /\ val_passed' = Append(val_passed,
                                                success_count(pass.results) >= 2)
                        /\ p_results' = <<>>
                        /\ p_idx' = 0
                        /\ IF ValidationPasses(pass.results)
                           THEN /\ \E written \in BOOLEAN :
                                      /\ saved' = Append(saved,
                                            SaveCall(output_data.text, InputFile,
                                                     clock, written))
                                      /\ files' = save_output_data(files,
                                            output_data.text, InputFile, clock,
                                            written)
                                /\ p_result' = SuccessResult(pass.results)
                                /\ p_pc' = "done"
                                /\ UNCHANGED retry_count
                           ELSE /\ retry_count' = retry_count + 1
                                /\ p_pc' = StageAfterRejection
                                /\ UNCHANGED <<p_result, saved, files>>
    /\ UNCHANGED <<max_retries, file_state, run_indexes, p_templates,
                   pre_verification_results,
                   output_data, conv_response, conv_attempts, val_runs, clock,
                   consVars, agentVars, extraVars>>

\* the while loop is over without success: the wrap-up summary
WrapUpFailed ==
    /\ p_pc = "while"
    /\ ~WhileCondition(retry_count, max_retries)
    /\ p_result' = FailedResult(validation_results, retry_count)
    /\ p_pc' = "done"
    /\ UNCHANGED <<max_retries, file_state, run_indexes, p_templates,
                   dispatched, retry_count, p_idx,
                   p_results, p_messages, pre_verification_results,
                   validation_results, output_data, conv_response, conv_attempts,
                   val_runs, val_passed, agent_calls, saved, files, clock,
                   consVars, agentVars, extraVars>>

Init ==
    /\ p_pc = "start"
    /\ max_retries \in 0..MaxRetriesBound
    /\ retry_count = 0 /\ p_idx = 0 /\ p_results = <<>> /\ p_messages = <<>>
    /\ pre_verification_results = <<>> /\ validation_results = <<>>
    /\ output_data = None /\ conv_response = NoKeys /\ conv_attempts = 0
    /\ val_runs = 0 /\ val_passed = <<>>
    /\ agent_calls = [s \in Stages |-> 0]
    /\ saved = <<>> /\ files = NoKeys /\ clock = 0 /\ p_result = NoKeys
    /\ \E extra \in Placeholders :
          \E has \in [Stages -> BOOLEAN] :
             p_templates = [s \in Stages |->
                               {"{<!--Data-->}"} \cup (IF has[s] THEN {extra} ELSE {})]
    /\ dispatched = {}
    /\ file_state \in FileStates
    /\ run_indexes = <<>>
    /\ ConsIdle /\ AgentIdle /\ ExtraIdle

Next ==
    \/ LoadFile
    \/ VerifyAgent
    \/ Convert
    \/ ValidateAgent
    \/ WrapUpFailed

Spec == Init /\ [][Next]_vars

----------------------------------------------------------------------------
(* Properties of the consensus runner (checked under SpecConsensus)         *)

\* the runs to speak about: the completed run of each mode
Done(m) == finished[m].status # "none"
Returned(m) == finished[m].status = "returned"

\* both of the first two outcomes carry a verdict
BothVerdicts(rs) == Len(rs) >= 2 /\ ~AgreeRaises(rs)

\* the request built for agent i still contains one of the five tokens
KeepsPlaceholder(i) == payload_builder(i) \cap Placeholders # {}

\* events of agent i in a log; positions of the events of agent i
EventsOf(lg, i) == {k \in DOMAIN lg : lg[k][2] = i}

\* C1: when the outcomes of agent 0 and agent 1 carry the same verdict, the run
\* returns exactly 2 outcomes and agent 2 is never invoked (nor its payload
\* built), in sequential and in parallel mode; the same holds of the run in
\* progress.
C1_EarlyExit ==
    /\ \A m \in Modes :
          Done(m) /\ BothVerdicts(finished[m].outcomes)
                  /\ finished[m].outcomes[1].isvalid = finished[m].outcomes[2].isvalid
          => /\ Returned(m)
             /\ Len(finished[m].outcomes) = 2
             /\ finished[m].calls[2] = 0
             /\ EventsOf(finished[m].log, 2) = {}
    /\ BothVerdicts(results) /\ results[1].isvalid = results[2].isvalid
       => Len(results) = 2 /\ calls[2] = 0 /\ EventsOf(log, 2) = {}

\* both modes ended with two approvals, and both with two rejections would too
C1_Witness ==
    /\ Returned("sequential") /\ Returned("parallel")
    /\ Len(finished["sequential"].outcomes) = 2
    /\ Len(finished["parallel"].outcomes) = 2
    /\ finished["parallel"].outcomes[1].isvalid = FALSE
    /\ finished["parallel"].outcomes[2].isvalid = FALSE
    /\ finished["sequential"].calls = [i \in Agents |-> IF i = 2 THEN 0 ELSE 1]
    /\ responses[2] = MsgTrue

\* the outcome the runner must hold for agent i
ExpectedOutcome(i, placeholder_outcome) ==
    IF KeepsPlaceholder(i) THEN placeholder_outcome ELSE OutcomeOf(responses[i])

\* C2: when the verdicts of agent 0 and agent 1 differ, all three agents are
\* executed, each once (agent 2 only after the first two are through), the run
\* returns 3 outcomes in agent order, and the pass/fail (count of true
\* verdicts >= 2) is agent 2's verdict.
C2_TieBreak ==
    \A m \in Modes :
       Done(m) /\ BothVerdicts(finished[m].outcomes)
               /\ finished[m].outcomes[1].isvalid # finished[m].outcomes[2].isvalid
       => LET f == finished[m]
          IN  /\ Returned(m)
              /\ Len(f.outcomes) = 3
              /\ \A i \in Agents :
                    /\ f.outcomes[i + 1] = ExpectedOutcome(i, PlaceholderOutcome)
                    /\ f.calls[i] = (IF KeepsPlaceholder(i) THEN 0 ELSE 1)
                    /\ Cardinality({k \in EventsOf(f.log, i) :
                                       f.log[k][1] \in {"begin", "skip"}}) = 1
              /\ \A k \in EventsOf(f.log, 2) :
                    \A j \in EventsOf(f.log, 0) \cup EventsOf(f.log, 1) : j < k
              /\ (success_count(f.outcomes) >= 2) = GetIsValid(f.outcomes[3])
              /\ (success_count(f.outcomes) >= 2)
                    = (2 * success_count(f.outcomes) > Len(f.outcomes))

\* true, false, true in parallel mode: three outcomes, passed
C2_Witness ==
    /\ Returned("parallel") /\ Returned("sequential")
    /\ Len(finished["parallel"].outcomes) = 3
    /\ finished["parallel"].outcomes[1].isvalid = TRUE
    /\ finished["parallel"].outcomes[2].isvalid = FALSE
    /\ GetIsValid(finished["parallel"].outcomes[3])
    /\ success_count(finished["parallel"].outcomes) = 2
    /\ finished["parallel"].calls = [i \in Agents |-> 1]
    /\ Len(finished["sequential"].outcomes) = 3

\* C3: for every fixed assignment of responses to the three agents (true, false,
\* call-level error, no verdict tag, unresolved placeholder) the sequential and
\* the parallel run end the same way: the same outcomes in the same order, the
\* same agents invoked, the same pass/fail; where one mode is left by the
\* KeyError of the agreement check, so is the other, with the same outcomes.
C3_ModesEquivalent ==
    Done("sequential") /\ Done("parallel")
    => LET s == finished["sequential"]
           p == finished["parallel"]
       IN  /\ s.status = p.status
           /\ s.outcomes = p.outcomes
           /\ s.calls = p.calls
           /\ {i \in Agents : EventsOf(s.log, i) # {}}
                 = {i \in Agents : EventsOf(p.log, i) # {}}
           /\ (success_count(s.outcomes) >= 2) = (success_count(p.outcomes) >= 2)

\* both modes ran an error, a placeholder and a tie-breaker
C3_Witness ==
    /\ Returned("sequential") /\ Returned("parallel")
    /\ Len(finished["parallel"].outcomes) = 3
    /\ responses[0] = MsgError
    /\ finished["parallel"].outcomes[1] = AgentErrorOutcome(MsgError)
    /\ finished["parallel"].outcomes[2].isvalid = TRUE
    /\ finished["sequential"].outcomes[3] = PlaceholderOutcome

\* what C4 says of a run, with the text of the recorded message left open
PlaceholderHandled(msg) ==
    /\ \A i \in Agents : KeepsPlaceholder(i) => calls[i] = 0
    /\ \A m \in Modes : \A i \in Agents :
          Done(m) /\ KeepsPlaceholder(i)
          => LET f == finished[m]
             IN  /\ f.calls[i] = 0
                 /\ \A k \in EventsOf(f.log, i) : f.log[k][1] = "skip"
                 /\ i < 2 => Len(f.outcomes) >= 2
                 /\ i < Len(f.outcomes)
                    => f.outcomes[i + 1] = [isvalid |-> FALSE, invalid_msg |-> msg]
                 /\ i < 2 /\ BothVerdicts(f.outcomes)
                    => /\ Returned(m)
                       /\ (Len(f.outcomes) = 2)
                             = (f.outcomes[1].isvalid = f.outcomes[2].isvalid)

----------------------------------------------------------------------------
(* Properties of run_agent (checked under SpecAgent)                        *)

\* the first k network calls failed and call k + 1 succeeded
FailedThenOk(k) ==
    /\ Len(net_calls) > k
    /\ \A j \in 1..k : net_calls[j].kind = "fail"
    /\ net_calls[k + 1].kind = "ok"

\* C10: if the first k network calls fail transiently and call k + 1 succeeds
\* (k < max_attempts), run_agent has made exactly k + 1 network calls, makes
\* none after the success, and has returned a normalized outcome
\* ({role, content}) whose metadata has retry_count = k and neither an error
\* nor a failed flag.
C10_RetryThenSuccess ==
    \A k \in 0..MaxAttemptsBound :
       FailedThenOk(k)
       => /\ k < ra_max_retries
          /\ Len(net_calls) = k + 1
          /\ Len(sleeps) = k
          /\ ra_pc = "done"
          /\ {"role", "content", "_metadata"} \subseteq DOMAIN ra_result
          /\ ra_result.content = net_calls[k + 1].content
          /\ "error" \notin DOMAIN ra_result
          /\ "failed" \notin DOMAIN ra_result._metadata
          /\ ra_result._metadata.retry_count = k

\* two transient failures, then success on the third try of three
C10_Witness ==
    /\ ra_max_retries = 3
    /\ FailedThenOk(2)
    /\ ra_pc = "done"
    /\ ra_result._metadata.retry_count = 2

----------------------------------------------------------------------------
(* Properties of the pipeline (checked under Spec)                          *)

Terminated == p_pc = "done"
HasStatus(st) == "status" \in DOMAIN p_result /\ p_result.status = st

\* the message has no content, or its content has no <output>...</output> pair
LacksOutput(conv) ==
    \/ "content" \notin DOMAIN conv
    \/ ~\E i, j \in DOMAIN conv.content :
           /\ i < j
           /\ Lower(conv.content[i]) = "<output>"
           /\ Lower(conv.content[j]) = "</output>"

\* number of approvals among the outcomes of a consensus run
Approvals(rs) ==
    Cardinality({k \in DOMAIN rs : "isvalid" \in DOMAIN rs[k] /\ rs[k].isvalid})

PreVerificationRan == pre_verification_results # <<>>
AllValidationsFailed == \A k \in DOMAIN val_passed : ~val_passed[k]

\* C5: for every max_retries >= 0 a run performs at most max_retries conversion
\* attempts, the retry counter stays within 0..max_retries, it is incremented
\* (by one) only by a validation run that failed, and the count reported in the
\* terminal result never exceeds max_retries.
C5_RetryBound ==
    /\ [](/\ retry_count \in 0..max_retries
          /\ conv_attempts <= max_retries
          /\ agent_calls["convert"] <= max_retries
          /\ "retries" \in DOMAIN p_result => p_result.retries \in 0..max_retries
          /\ "attempts" \in DOMAIN p_result => p_result.attempts \in 0..max_retries)
    /\ [][retry_count' # retry_count
          => /\ retry_count' = retry_count + 1
             /\ p_pc = "validate"
             /\ Len(val_passed') = Len(val_passed) + 1
             /\ ~val_passed'[Len(val_passed')]
             /\ Approvals(validation_results') < 2]_vars

\* three attempts of three were used up
C5_Witness ==
    /\ max_retries = 3 /\ retry_count = 3 /\ conv_attempts = 3
    /\ HasStatus("failed") /\ p_result.retries = 3

\* C6: when a conversion response has no output tag pair (or the call returned
\* an error dict without content), the run ends at once with status
\* conversion_error: the retry counter is not incremented, no validation run is
\* started for it, nothing is saved and nothing happens afterwards, whatever
\* retry budget remains.
C6_ConversionError ==
    /\ [](conv_attempts > 0 /\ LacksOutput(conv_response)
          => /\ Terminated
             /\ HasStatus("conversion_error")
             /\ p_result.conversion_response = conv_response
             /\ retry_count = conv_attempts - 1
             /\ val_runs = conv_attempts - 1
             /\ Len(val_passed) = conv_attempts - 1
             /\ p_results = <<>>
             /\ saved = <<>>)
    /\ [][~Terminated]_vars

\* the second conversion of three lost its output tags
C6_Witness ==
    /\ HasStatus("conversion_error")
    /\ max_retries = 3 /\ retry_count = 1 /\ conv_attempts = 2
    /\ conv_response = ConvNoTags
    /\ agent_calls["validate"] >= 2

\* C7: when the pre-verification run yields fewer than 2 true verdicts, the run
\* terminates with status pre-verification_failed carrying every outcome of that
\* run; neither the conversion agent nor a validation agent is invoked and
\* nothing is saved.
C7_PreVerifyFails ==
    PreVerificationRan /\ Approvals(pre_verification_results) < 2
    => /\ Terminated
       /\ HasStatus("pre-verification_failed")
       /\ p_result.pre_verification_results = pre_verification_results
       /\ Len(pre_verification_results) = agent_calls["verify"]
       /\ conv_attempts = 0
       /\ agent_calls["convert"] = 0
       /\ agent_calls["validate"] = 0
       /\ val_runs = 0
       /\ saved = <<>>

\* true, false, false: rejected with three outcomes
C7_Witness ==
    /\ HasStatus("pre-verification_failed")
    /\ Len(p_result.pre_verification_results) = 3
    /\ Approvals(p_result.pre_verification_results) = 1
    /\ p_result.pre_verification_results[1].isvalid = TRUE

\* C8 (as claimed): when a validation run passes, the output is handed to
\* save_output_data and the run ends in success with a result that carries the
\* validation outcomes and the attempt count (the number of conversion attempts
\* performed, 1 when the first conversion is accepted).
C8_SuccessCarriesAttempts ==
    val_passed # <<>> /\ val_passed[Len(val_passed)]
    => /\ Terminated
       /\ HasStatus("success")
       /\ Len(saved) = 1
       /\ saved[1].text = output_data.text
       /\ p_result.validation = validation_results
       /\ \E key \in {"attempts", "retries", "attempt"} :
             /\ key \in DOMAIN p_result
             /\ p_result[key] = conv_attempts

\* C9: if pre-verification passes, every conversion yields an output section and
\* every validation run fails, the run performs exactly max_retries conversion
\* attempts and ends with status failed, retries = max_retries and the outcomes
\* of the last validation run; as long as every validation run failed nothing is
\* saved and success is not reported.
C9_RetryExhaustion ==
    /\ AllValidationsFailed
       => saved = <<>> /\ ~HasStatus("success")
    /\ /\ Terminated
       /\ "raised" \notin DOMAIN p_result
       /\ PreVerificationRan /\ Approvals(pre_verification_results) >= 2
       /\ conv_attempts > 0 => ~LacksOutput(conv_response)
       /\ AllValidationsFailed
       => /\ HasStatus("failed")
          /\ p_result.retries = max_retries
          /\ retry_count = max_retries
          /\ conv_attempts = max_retries
          /\ Len(val_passed) = max_retries
          /\ p_result.validation = validation_results
          /\ max_retries > 0 => /\ Len(validation_results) \in {2, 3}
                                /\ Approvals(validation_results) < 2

\* false, true, false on the third of three attempts
C9_Witness ==
    /\ HasStatus("failed")
    /\ max_retries = 3 /\ p_result.retries = 3 /\ conv_attempts = 3
    /\ Len(p_result.validation) = 3
    /\ p_result.validation[1].isvalid = FALSE
    /\ p_result.validation[2].isvalid = TRUE
    /\ saved = <<>>

----------------------------------------------------------------------------
(* Properties of run_agent, continued (checked under SpecAgent)             *)

\* every network call made so far failed transiently
AllCallsFailed == \A j \in DOMAIN net_calls : net_calls[j].kind = "fail"

\* the provider id the agent resolves to: its own, else the default, else local
ResolvedProvider ==
    IF "provider" \in DOMAIN agent_config THEN agent_config.provider
    ELSE IF "default_provider" \in DOMAIN agent_config
    THEN agent_config.default_provider
    ELSE "local"
ProviderKnown == ResolvedProvider \in agent_config.providers

\* C11: if every network call of an agent fails transiently, run_agent makes
\* exactly max_attempts calls (never more, and it cannot stop before), sleeps
\* between them, and then returns, without raising, an error dict that carries
\* the last error and metadata failed = true and retry_count = max_attempts.
C11_RetriesExhausted ==
    ProviderKnown /\ AllCallsFailed
    => /\ Len(net_calls) <= ra_max_retries
       /\ ra_pc # "done" => ENABLED NextAgent
       /\ ra_pc = "done"
          => /\ Len(net_calls) = ra_max_retries
             /\ DOMAIN ra_result = {"error", "_metadata"}
             /\ ra_result._metadata.failed = TRUE
             /\ ra_result._metadata.retry_count = ra_max_retries
             /\ ra_max_retries > 0
                => /\ ra_result.error = net_calls[Len(net_calls)].error
                   /\ Len(sleeps) = ra_max_retries - 1

\* three failures of three, the last one of another kind than the first
C11_Witness ==
    /\ ra_pc = "done" /\ ra_max_retries = 3 /\ Len(net_calls) = 3
    /\ AllCallsFailed
    /\ net_calls[1].error = "ConnectionError"
    /\ net_calls[3].error = "HTTPError 503"
    /\ ra_result.error = "HTTPError 503"

\* C12: when the provider id the agent resolves to is not among the configured
\* providers, run_agent returns an error dict at once: no network call, no
\* sleep and no pass of the retry loop, whatever the retry budget.
C12_UnknownProvider ==
    ~ProviderKnown
    => /\ net_calls = <<>>
       /\ sleeps = <<>>
       /\ attempt = 0
       /\ ra_pc \in {"start", "done"}
       /\ ra_pc = "done"
          => /\ "error" \in DOMAIN ra_result
             /\ ra_result._metadata.failed = TRUE
             /\ "raised" \notin DOMAIN ra_result

\* the agent names a provider that is not configured, with budget to spare
C12_Witness ==
    /\ ra_pc = "done"
    /\ ra_max_retries = 3
    /\ "provider" \in DOMAIN agent_config
    /\ agent_config.provider = "openai"
    /\ agent_config.providers = {"local"}
    /\ "default_provider" \in DOMAIN agent_config
    /\ agent_config.default_provider = "local"
    /\ ra_result.error = <<"Provider", "openai", "not configured">>

----------------------------------------------------------------------------
(* Properties of the pipeline, continued (checked under Spec)               *)

\* run_agent handed a call-level error dict to the consensus loop in progress
ErrorOutcomeAt(j) == j \in DOMAIN p_messages /\ "error" \in DOMAIN p_messages[j]

\* the outcomes the consensus loop in progress, or just over, has recorded
RecordedOutcomes ==
    IF p_results # <<>> THEN p_results
    ELSE IF val_runs = 0 THEN pre_verification_results
    ELSE validation_results

\* a validation loop is over in which one validator ended in a call-level
\* error and the two others answered true
OneErrorTwoTrue ==
    /\ val_runs > 0 /\ p_pc \in {"while", "done"}
    /\ Len(p_messages) = 3
    /\ \E j \in 1..3 :
          /\ ErrorOutcomeAt(j)
          /\ \A k \in (1..3) \ {j} : p_messages[k] = MsgTrue

\* C13: in a verification or validation consensus run of the pipeline, an
\* agent whose call ends in a call-level error outcome is recorded as a
\* negative verdict with the error message attached and does not abort the
\* run; when one of three validators exhausts its retries and the other two
\* return true, the validation passes with 2 of 3.
C13_ErrorOutcomeIsNegative ==
    /\ \A j \in 1..3 :
          ErrorOutcomeAt(j)
          => /\ "raised" \notin DOMAIN p_result
             /\ j \in DOMAIN RecordedOutcomes
             /\ GetIsValid(RecordedOutcomes[j]) = FALSE
             /\ "invalid_msg" \in DOMAIN RecordedOutcomes[j]
    /\ OneErrorTwoTrue
       => /\ val_passed # <<>>
          /\ val_passed[Len(val_passed)] = TRUE

\* C15: for every combination of agent behaviours (success, transient
\* failure, exhausted retries, unknown provider, missing verdict tag, missing
\* output tag), process_data returns a structured terminal result (load error,
\* pre-verification_failed, conversion_error, success or failed) to its caller
\* and never lets an exception escape.
C15_NoExceptionEscapes ==
    Terminated
    => \/ p_result = LoadErrorResult
       \/ HasStatus("pre-verification_failed")
       \/ HasStatus("conversion_error")
       \/ HasStatus("success")
       \/ HasStatus("failed")

----------------------------------------------------------------------------
(* Properties of the consensus runner, continued (checked under             *)
(* SpecConsensus)                                                           *)

\* the response of agent i is a message without a verdict tag pair
LacksVerdict(i) ==
    /\ "content" \in DOMAIN responses[i]
    /\ ~\E k \in DOMAIN responses[i].content :
          Lower(responses[i].content[k]) = "<isvalid>"

\* C14: in a consensus run, an agent response that contains no verdict tag
\* pair (or an empty one) is treated as a negative verdict with a diagnostic
\* message: the run continues to the agreement check and returns a result,
\* instead of failing.
C14_MissingVerdictIsNegative ==
    \A m \in Modes : \A i \in Agents :
       Done(m) /\ finished[m].calls[i] > 0 /\ LacksVerdict(i)
       => /\ Returned(m)
          /\ i + 1 \in DOMAIN finished[m].outcomes
          /\ GetIsValid(finished[m].outcomes[i + 1]) = FALSE
          /\ "invalid_msg" \in DOMAIN finished[m].outcomes[i + 1]

\* the agents with an invocation in flight, and whether the invocation of
\* agent i is through (run_single_agent has returned), according to a log
InFlight(lg) ==
    {i \in Agents : /\ \E k \in DOMAIN lg : lg[k] = <<"begin", i>>
                    /\ ~\E k \in DOMAIN lg : lg[k] = <<"end", i>>}
Completed(lg, i) ==
    \E k \in DOMAIN lg : lg[k][2] = i /\ lg[k][1] \in {"end", "skip"}

\* in a log, every event of agent 2 comes after agent 0 and agent 1 are through
TieBreakerLast(lg) ==
    \A k \in EventsOf(lg, 2) : \A i \in {0, 1} :
       \E j \in 1..(k - 1) : lg[j][2] = i /\ lg[j][1] \in {"end", "skip"}

\* C16: in parallel mode at most two agent invocations of one decision are in
\* flight at any time (never more than the pool has workers), the agreement
\* check and any invocation of agent 2 happen only after the invocations of
\* agent 0 and agent 1 have both completed, and agent 2 never runs
\* concurrently with agent 0 or agent 1.
C16_JoinBeforeDecision ==
    /\ Cardinality(InFlight(log)) <= 2
    /\ mode = "parallel"
       => /\ Cardinality(InFlight(log)) <= PoolSize
          /\ TieBreakerLast(log)
          /\ 2 \in InFlight(log) => InFlight(log) = {2}
          /\ pc = "phase3" => Completed(log, 0) /\ Completed(log, 1)
    /\ Done("parallel")
       => /\ Completed(finished["parallel"].log, 0)
          /\ Completed(finished["parallel"].log, 1)
          /\ InFlight(finished["parallel"].log) = {}
          /\ TieBreakerLast(finished["parallel"].log)

\* both first invocations ran at the same time, then the tie-breaker
C16_Witness ==
    /\ Returned("parallel")
    /\ finished["parallel"].log
          = << <<"begin", 0>>, <<"begin", 1>>, <<"end", 1>>, <<"end", 0>>,
               <<"begin", 2>>, <<"end", 2>> >>

\* the invocation of agent i is made and ends in a call-level error
InvocationFails(i) == "error" \in DOMAIN responses[i] /\ ~KeepsPlaceholder(i)

\* according to a log and a call count, agent j was started and ran to the end
RanToCompletion(lg, cs, j) ==
    /\ Completed(lg, j)
    /\ ~KeepsPlaceholder(j)
       => /\ cs[j] = 1
          /\ \E b, e \in DOMAIN lg :
                b < e /\ lg[b] = <<"begin", j>> /\ lg[e] = <<"end", j>>

\* C17: in parallel mode, when the invocation of agent 0 or of agent 1 fails,
\* the sibling invocation is not cancelled: it is still started and runs to
\* completion before the run proceeds to the tie-breaker or ends, and no
\* invocation is left queued or in flight once the run is over.
C17_SiblingNotCancelled ==
    /\ \A i \in {0, 1} :
          InvocationFails(i)
          => /\ mode = "parallel" /\ pc = "phase3"
                => RanToCompletion(log, calls, 1 - i)
             /\ Done("parallel")
                => RanToCompletion(finished["parallel"].log,
                                   finished["parallel"].calls, 1 - i)
    /\ mode # "parallel" => \A j \in {0, 1} : task[j] \in {"idle", "done"}

\* one worker: agent 0 fails, agent 1 is started after that and approves
C17_Witness ==
    /\ Returned("parallel")
    /\ max_workers = 1
    /\ responses[0] = MsgError /\ responses[1] = MsgTrue
    /\ finished["parallel"].outcomes[1] = AgentErrorOutcome(MsgError)
    /\ finished["parallel"].outcomes[2].isvalid = TRUE
    /\ Len(finished["parallel"].log) >= 4
    /\ SubSeq(finished["parallel"].log, 1, 4)
          = << <<"begin", 0>>, <<"end", 0>>, <<"begin", 1>>, <<"end", 1>> >>

\* C18: in parallel mode, under every interleaving and completion order of the
\* two concurrent invocations, the result has agent 0's outcome at position 0
\* and agent 1's outcome at position 1, and the two invocations mutate no
\* state shared between them: each writes only its own agent record and its
\* own future.
C18_PositionalNoSharing ==
    /\ [](/\ Done("parallel") /\ Len(finished["parallel"].outcomes) >= 2
             => \A i \in {0, 1} :
                   finished["parallel"].outcomes[i + 1]
                      = ExpectedOutcome(i, PlaceholderOutcome)
          /\ mode = "parallel" /\ Len(results) >= 2
             => \A i \in {0, 1} :
                   results[i + 1] = ExpectedOutcome(i, PlaceholderOutcome))
    /\ [][mode = "parallel"
          => /\ \A j \in {0, 1} :
                   agent_cfg'[j] # agent_cfg[j] \/ future'[j] # future[j]
                   => /\ task[j] \in {"queued", "calling"}
                      /\ task'[j] # task[j]
                      /\ task'[1 - j] = task[1 - j]
                      /\ agent_cfg'[1 - j] = agent_cfg[1 - j]
                      /\ future'[1 - j] = future[1 - j]
             /\ agent_cfg'[2] # agent_cfg[2] => pc = "phase3"]_vars

\* agent 1 was through before agent 0, with different outcomes
C18_Witness ==
    /\ Returned("parallel")
    /\ responses[0] = MsgFalse /\ responses[1] = MsgTrue
    /\ Len(finished["parallel"].log) >= 4
    /\ SubSeq(finished["parallel"].log, 1, 4)
          = << <<"begin", 0>>, <<"begin", 1>>, <<"end", 1>>, <<"end", 0>> >>
    /\ finished["parallel"].outcomes[1].isvalid = FALSE
    /\ finished["parallel"].outcomes[2].isvalid = TRUE
    /\ agent_cfg[0] = Prepared(NoKeys) /\ agent_cfg[1] = Prepared(NoKeys)

----------------------------------------------------------------------------
(* Properties of the pipeline's requests (checked under Spec)               *)

\* C20: every request dispatched by a pipeline run, the conversion request and
\* the pre-verification requests included, has all five placeholder tokens
\* resolved; a conversion request whose template contains the previous-notes
\* or the output token is never sent with that token still present.
C20_RequestsResolved ==
    \A d \in dispatched : d.request \cap Placeholders = {}

\* the input file cannot be loaded: it is missing or reading it fails
CannotLoad == file_state \in {"missing", "unreadable"}

\* C22: when the input file cannot be loaded, process_data returns a
\* load-error result for that path without entering the state machine: no
\* verification, conversion or validation agent is invoked and nothing is
\* saved.
C22_LoadError ==
    CannotLoad
    => /\ p_pc \in {"start", "done"}
       /\ \A st \in Stages : agent_calls[st] = 0
       /\ dispatched = {} /\ run_indexes = <<>>
       /\ saved = <<>> /\ files = NoKeys
       /\ Terminated
          => /\ p_result = [error |-> "Could not load file", file_path |-> "in.csv"]
             /\ "status" \notin DOMAIN p_result

\* reading the file raised: the run is over with the load error
C22_Witness ==
    /\ Terminated
    /\ file_state = "unreadable"
    /\ max_retries = 3
    /\ p_result = LoadErrorResult

----------------------------------------------------------------------------
(* The output persister across runs: data_flow.py save_output_data called   *)
(* by several pipeline runs, on several input files, as the clock advances  *)

MaxClock == 2
MaxSaves == 3

\* the input files of the runs: the same stem in two folders and with two
\* extensions, another stem, a name with two extensions
InputFiles ==
    {[dir |-> "a", name |-> <<"x", "csv">>],
     [dir |-> "b", name |-> <<"x", "csv">>],
     [dir |-> "a", name |-> <<"x", "txt">>],
     [dir |-> "a", name |-> <<"y", "csv">>],
     [dir |-> "a", name |-> <<"x", "tar", "gz">>]}

\* the converted texts the runs save
SavedTexts == {<<"csv-a">>, <<"csv-b">>}

\* a second passes
Tick ==
    /\ clock < MaxClock
    /\ clock' = clock + 1
    /\ UNCHANGED <<p_pc, max_retries, file_state, run_indexes, p_templates,
                   dispatched, retry_count,
                   p_idx, p_results, p_messages, pre_verification_results, validation_results, output_data,
                   conv_response, conv_attempts, val_runs, val_passed,
                   agent_calls, saved, files, p_result, consVars,
                   agentVars, extraVars>>

\* a pipeline run whose validation passed saves its output
SaveOutput ==
    /\ Len(saved) < MaxSaves
    /\ \E file_path \in InputFiles, text \in SavedTexts, written \in BOOLEAN :
          /\ saved' = Append(saved, SaveCall(text, file_path, clock, written))
          /\ files' = save_output_data(files, text, file_path, clock, written)
    /\ UNCHANGED <<p_pc, max_retries, file_state, run_indexes, p_templates,
                   dispatched, retry_count,
                   p_idx, p_results, p_messages, pre_verification_results, validation_results, output_data,
                   conv_response, conv_attempts, val_runs, val_passed,
                   agent_calls, clock, p_result, consVars,
                   agentVars, extraVars>>

InitSave == ConsIdle /\ AgentIdle /\ PipeIdle /\ ExtraIdle

NextSave ==
    \/ Tick
    \/ SaveOutput

SpecSave == InitSave /\ [][NextSave]_vars

\* C19: any two successful save operations, whether from different pipeline
\* runs or different input files, write to distinct output paths, so one
\* run's saved output is never overwritten by another's: every saved text is
\* still in its file.
C19_DistinctOutputPaths ==
    /\ \A i, j \in DOMAIN saved :
          i < j /\ saved[i].written /\ saved[j].written
          => saved[i].out_path # saved[j].out_path
    /\ \A i \in DOMAIN saved :
          saved[i].written
          => /\ saved[i].out_path \in DOMAIN files
             /\ files[saved[i].out_path] = saved[i].text

----------------------------------------------------------------------------
(* Properties of the sequential runner (checked under SpecConsensus)        *)

\* in a log, agent i is through before position k
ThroughBefore(lg, i, k) ==
    \E j \in 1..(k - 1) : lg[j][2] = i /\ lg[j][1] \in {"end", "skip"}

\* a log in strict candidate order, one call at a time: every event of agent
\* i + 1 comes after agent i is through, and the begin of an invocation is
\* directly followed by its end
StrictlyInOrder(lg) ==
    /\ \A k \in DOMAIN lg :
          /\ lg[k][2] > 0 => ThroughBefore(lg, lg[k][2] - 1, k)
          /\ lg[k][1] = "begin"
             => k + 1 \in DOMAIN lg /\ lg[k + 1] = <<"end", lg[k][2]>>
    /\ InFlight(lg) = {}

\* C21: in sequential mode the agents are executed strictly in candidate
\* order, one call at a time: the invocation of agent 1 does not begin until
\* that of agent 0 has returned, and the invocation of agent 2 does not begin
\* until that of agent 1 has returned.
C21_SequentialOrder ==
    /\ mode = "sequential"
       => /\ StrictlyInOrder(log)
          /\ \A i \in Agents : i >= idx => EventsOf(log, i) = {}
          /\ \A i \in Agents : i < idx => Completed(log, i)
    /\ Done("sequential") => StrictlyInOrder(finished["sequential"].log)

\* three invocations, one after the other
C21_Witness ==
    /\ Returned("sequential")
    /\ finished["sequential"].log
          = << <<"begin", 0>>, <<"end", 0>>, <<"begin", 1>>, <<"end", 1>>,
               <<"begin", 2>>, <<"end", 2>> >>
    /\ finished["sequential"].calls = [i \in Agents |-> 1]

----------------------------------------------------------------------------
(* Properties of the backoff of run_agent (checked under SpecAgent)         *)

\* C23: after the transient failure of attempt number a (0-based) run_agent
\* sleeps backoff^a seconds and then retries, so the sleeps are backoff^0,
\* backoff^1, ... with exactly one sleep between consecutive network calls
\* (none after the last attempt), and the number of network calls never
\* exceeds max_attempts.
C23_BackoffSchedule ==
    /\ [](/\ \A k \in DOMAIN sleeps : sleeps[k] = Pow(ra_backoff, k - 1)
          /\ Len(net_calls) <= ra_max_retries
          /\ Len(sleeps) <= Len(net_calls)
          /\ Len(net_calls) <= Len(sleeps) + 1
          /\ ra_max_retries > 0 => Len(sleeps) <= ra_max_retries - 1
          /\ \A k \in DOMAIN sleeps : net_calls[k].kind = "fail"
          /\ ra_pc = "done" /\ AllCallsFailed /\ ProviderKnown
                /\ ra_max_retries > 0
             => Len(sleeps) = ra_max_retries - 1)
    /\ [][/\ Len(net_calls') > Len(net_calls)
             => /\ Len(net_calls') = Len(net_calls) + 1
                /\ Len(sleeps) = Len(net_calls)
                /\ sleeps' = sleeps
          /\ Len(sleeps') > Len(sleeps)
             => /\ Len(sleeps') = Len(sleeps) + 1
                /\ Len(net_calls) = Len(sleeps) + 1
                /\ net_calls[Len(net_calls)].kind = "fail"
                /\ net_calls' = net_calls]_vars

\* backoff 2, three failing attempts: sleeps of 1 and 2 seconds
C23_Witness ==
    /\ ra_pc = "done" /\ ra_max_retries = 3 /\ ra_backoff = 2
    /\ Len(net_calls) = 3 /\ AllCallsFailed
    /\ sleeps = <<1, 2>>

----------------------------------------------------------------------------
(* The response parser on its own: validators.py get_str_between_tags and   *)
(* parse_isvalid applied to every short text over a small alphabet          *)

MaxTextLen == 4

\* the tokens of the texts: the verdict tags in two spellings, verdict words,
\* white space, another word
TextTokens == {"<isvalid>", "<ISVALID>", "</isvalid>", "True", "true", "false",
               " ", "\n", "why"}

Texts == UNION {[1..n -> TextTokens] : n \in 0..MaxTextLen}

\* the parser is applied to the text
ParseText ==
    /\ tg_pc = "ready"
    /\ tg_found' = get_str_between_tags(tg_text, "<isvalid>", "</isvalid>")
    /\ tg_parsed' = parse_isvalid(tg_text)
    /\ tg_pc' = "done"
    /\ UNCHANGED <<tg_text, consVars, agentVars, pipeVars, logVars, genVars,
                   lateVars>>

InitParse ==
    /\ tg_pc = "ready"
    /\ tg_text \in Texts
    /\ tg_found = None /\ tg_parsed = NoKeys
    /\ ConsIdle /\ AgentIdle /\ PipeIdle /\ LogIdle /\ GenIdle /\ LateIdle

NextParse == ParseText

SpecParse == InitParse /\ [][NextParse]_vars

\* the positions of the open and of the close tag in the text, in any case
OpenTags == {i \in DOMAIN tg_text : tg_text[i] \in {"<isvalid>", "<ISVALID>"}}
CloseTags == {j \in DOMAIN tg_text : tg_text[j] = "</isvalid>"}
HasTagPair == \E i \in OpenTags : \E j \in CloseTags : i < j

\* t is u without the white space at its two ends
IsTrimmed(t, u) ==
    /\ t = <<>> \/ (t[1] \notin {" ", "\n"} /\ t[Len(t)] \notin {" ", "\n"})
    /\ \E a, b \in 0..Len(u) :
          /\ a + Len(t) + b = Len(u)
          /\ \A k \in 1..a : u[k] \in {" ", "\n"}
          /\ \A k \in 1..b : u[Len(u) - b + k] \in {" ", "\n"}
          /\ \A k \in 1..Len(t) : t[k] = u[a + k]

\* C24: the tag extractor returns the whitespace-trimmed text between the
\* first occurrence of the open tag and the first close tag that follows it,
\* matching tags case-insensitively and across newlines, and returns absent
\* when no such pair exists; the verdict extractor reports verdict true
\* exactly when the extracted verdict text equals "true" ignoring case.
C24_TagExtraction ==
    tg_pc = "done"
    => /\ ~HasTagPair => tg_found = None
       /\ HasTagPair
          => LET i == CHOOSE a \in OpenTags : \A b \in OpenTags : a <= b
                 j == CHOOSE a \in CloseTags :
                         a > i /\ \A b \in CloseTags : b > i => a <= b
             IN  /\ tg_found.some
                 /\ IsTrimmed(tg_found.text, SubSeq(tg_text, i + 1, j - 1))
       /\ GetIsValid(tg_parsed)
             = (/\ tg_found.some
                /\ Len(tg_found.text) = 1
                /\ tg_found.text[1] \in {"true", "True"})

\* upper-case open tag, a newline before the verdict
C24_Witness ==
    /\ tg_pc = "done"
    /\ tg_text = <<"<ISVALID>", "\n", "True", "</isvalid>">>
    /\ tg_found = Some(<<"True">>)
    /\ tg_parsed = [isvalid |-> TRUE]

----------------------------------------------------------------------------
(* Properties of the request headers of run_agent (checked under SpecAgent) *)

\* the provider names an auth header and no API key is there for it
KeyMissing == provider_auth.auth_header # "" /\ provider_auth.api_key = ""

\* C25: when the provider configures an auth header but no API key is
\* available for it, the auth header is omitted from the request and the
\* network call is still issued (a failure is an ordinary transient error,
\* retried like the others); a missing key never causes a configuration
\* error and never skips the call.
C25_MissingKeyStillCalls ==
    KeyMissing /\ ProviderKnown
    => /\ ra_pc # "start"
          => /\ provider_auth.auth_header \notin DOMAIN ra_headers
             /\ "Content-Type" \in DOMAIN ra_headers
       /\ ra_pc = "loop" /\ attempt < ra_max_retries => ENABLED RunAgentPost
       /\ ra_pc = "done" /\ ra_max_retries > 0
          => /\ Len(net_calls) >= 1
             /\ "raised" \notin DOMAIN ra_result
                => \/ /\ net_calls[Len(net_calls)].kind = "ok"
                      /\ "error" \notin DOMAIN ra_result
                   \/ /\ AllCallsFailed
                      /\ Len(net_calls) = ra_max_retries
                      /\ ra_result.error = net_calls[Len(net_calls)].error
                      /\ ra_result._metadata.retry_count = ra_max_retries

\* no key: the request goes out without auth header, is refused twice and
\* then answered
C25_Witness ==
    /\ KeyMissing /\ ProviderKnown
    /\ ra_pc = "done" /\ ra_max_retries = 3
    /\ Len(net_calls) = 3
    /\ net_calls[1].kind = "fail" /\ net_calls[1].error = "HTTPError 401"
    /\ net_calls[2].kind = "fail" /\ net_calls[2].error = "HTTPError 401"
    /\ net_calls[3].kind = "ok"
    /\ DOMAIN ra_headers = {"Content-Type"}
    /\ ra_result._metadata.retry_count = 2

----------------------------------------------------------------------------
(* Properties of the conversion attempts and of the save step (checked
   under Spec) *)

\* the validation runs that were completed and did not reach 2 approvals
FailedValidations == {k \in DOMAIN val_passed : ~val_passed[k]}

\* C26: each conversion attempt makes exactly one conversion agent call
\* (never a consensus run), and the run index of the k-th conversion request
\* of a run is k-1: the indices start at 0, go up by exactly 1 per failed
\* validation, and equal the retry counter of the moment.
C26_RunIndexIsRetryCounter ==
    /\ Len(run_indexes) = conv_attempts
    /\ agent_calls["convert"] = conv_attempts
    /\ \A k \in DOMAIN run_indexes : run_indexes[k] = k - 1
    /\ retry_count = Cardinality(FailedValidations)
    /\ p_pc = "validate" => run_indexes[Len(run_indexes)] = retry_count
    /\ \A k \in DOMAIN run_indexes :
          Cardinality({j \in FailedValidations : j < k}) = run_indexes[k]

\* three conversions with the run indexes 0, 1, 2; the third is being
\* validated after two failed validations
C26_Witness ==
    /\ p_pc = "validate"
    /\ run_indexes = <<0, 1, 2>>
    /\ conv_attempts = 3 /\ agent_calls["convert"] = 3
    /\ retry_count = 2
    /\ val_passed = <<FALSE, FALSE>>

\* C27: a run reports the status success only if the converted output was
\* actually written by save_output_data; a failure inside the save step is
\* not reported as success.
C27_SuccessOnlyIfWritten ==
    HasStatus("success")
    => /\ saved # <<>>
       /\ saved[Len(saved)].written
       /\ saved[Len(saved)].out_path \in DOMAIN files

----------------------------------------------------------------------------
(* The file loop of main and the captured logs (converter.py).  Every record
   of the capture handler carries the position of the file during whose
   loop pass it was emitted (0: before the loop). *)

MaxFiles == 3
MaxEmit == 2

\* LogCaptureHandler.emit: the record is appended to log_records
emit(records, file, message) ==
    Append(records, [file |-> file, message |-> message])

RECURSIVE emit_n(_, _, _, _)
emit_n(records, file, message, n) ==
    IF n = 0 THEN records
    ELSE emit_n(emit(records, file, message), file, message, n - 1)

\* LogCaptureHandler.get_logs: a copy of the records
get_logs(records) == records

\* LogCaptureHandler.clear_logs
clear_logs(records) == <<>>

\* the loop variable moves on; after the last file main returns
NextFile ==
    /\ file_idx' = file_idx + 1
    /\ lg_pc' = IF file_idx + 1 > Len(files_to_process) THEN "done"
                ELSE "process"

\* except Exception inside the loop body: the error is logged and the loop
\* goes on with the next file
\* (the slip: the try statement is around the loop, an exception ends it)
OnException_Abort == lg_pc' = "done" /\ UNCHANGED file_idx
OnException == NextFile

\* one pass of the loop up to the end of process_data: "Processing file" is
\* logged, process_data logs n records and returns or raises; what it raises
\* is caught by the loop's except, logged, and the loop goes on (save_logs is
\* not reached)
ProcessData ==
    /\ lg_pc = "process"
    /\ \E n \in 1..MaxEmit, outcome \in {"returned", "raised"} :
          LET f == files_to_process[file_idx]
              during == emit_n(emit(log_records, f, "Processing file"),
                               f, "process_data", n)
          IN  IF outcome = "raised"
              THEN /\ log_records' = emit(during, f, "Error processing file")
                   /\ lg_history' = Append(lg_history,
                         [file |-> f, process_data |-> "raised",
                          save_logs |-> "not called"])
                   /\ OnException
              ELSE /\ log_records' = during
                   /\ lg_history' = Append(lg_history,
                         [file |-> f, process_data |-> "returned",
                          save_logs |-> "not called"])
                   /\ lg_pc' = "save"
                   /\ UNCHANGED file_idx
    /\ UNCHANGED <<files_to_process, log_details, log_store, consVars,
                   agentVars, pipeVars, parseVars, genVars, lateVars>>

\* save_logs: with log_details the captured records go into the log data;
\* the file is written, "Log data saved" is logged and the buffer is
\* cleared.  A KeyError or OSError on the way is caught and logged: nothing
\* is written and nothing is cleared.  Any other exception (a TypeError for
\* a log_file setting that is no dict) leaves save_logs and is caught by the
\* loop's except.
SaveLogs ==
    /\ lg_pc = "save"
    /\ \E outcome \in {"saved", "failed", "raised"} :
          /\ lg_history' =
                [lg_history EXCEPT ![Len(lg_history)].save_logs = outcome]
          /\ LET f == files_to_process[file_idx]
             IN  IF outcome = "saved"
              THEN /\ log_store' = Append(log_store,
                         [file |-> f, detailed |-> log_details,
                          system_logs |-> IF log_details
                                          THEN get_logs(log_records)
                                          ELSE <<>>])
                   /\ log_records' =
                         IF log_details
                         THEN clear_logs(emit(log_records, f, "Log data saved"))
                         ELSE emit(log_records, f, "Log data saved")
              ELSE /\ log_records' =
                         emit(log_records, f,
                              IF outcome = "failed" THEN "Error saving log data"
                              ELSE "Error processing file")
                   /\ UNCHANGED log_store
          /\ IF outcome = "raised" THEN OnException ELSE NextFile
    /\ UNCHANGED <<files_to_process, log_details, consVars, agentVars,
                   pipeVars, parseVars, genVars, lateVars>>

\* load_config has logged its two validation messages; the loop starts at
\* the first file, and an empty list ends main at once
InitLogs ==
    /\ files_to_process \in {[i \in 1..n |-> i] : n \in 0..MaxFiles}
    /\ log_details \in BOOLEAN
    /\ file_idx = 1
    /\ lg_pc = IF files_to_process = <<>> THEN "done" ELSE "process"
    /\ log_records = emit(emit(<<>>, 0, "Conversion YAML validation passed"),
                          0, "Agent configuration validation passed")
    /\ log_store = <<>> /\ lg_history = <<>>
    /\ ConsIdle /\ AgentIdle /\ PipeIdle /\ ParseIdle /\ GenIdle /\ LateIdle

NextLogs == ProcessData \/ SaveLogs

SpecLogs == InitLogs /\ [][NextLogs]_vars

\* C28: with detailed logging the buffer is cleared after each file, so the
\* system_logs stored with a file's result hold only records emitted since
\* the pass of the previous file (for the first file: since the start),
\* also when the previous file's processing raised or its log save failed.
C28_LogsOfThisFileOnly ==
    \A k \in DOMAIN log_store :
        log_store[k].detailed
        => \A j \in DOMAIN log_store[k].system_logs :
              LET rec == log_store[k].system_logs[j]
              IN  \/ rec.file = log_store[k].file
                  \/ log_store[k].file = 1 /\ rec.file = 0

----------------------------------------------------------------------------
(* ConfigurationBuilder.generate_yaml_config (builder.py): the generation
   loop with extraction, 2-of-3 validation and retry notes *)

MaxRetryLimit == 3

\* what client.validate_output hands back: 2 or 3 verdicts
Verdicts == UNION {[1..n -> BOOLEAN] : n \in 2..3}

\* what one pass of the loop can meet: convert_data raises, returns an error
\* dict, returns a result without YAML in it, or returns YAML for which the
\* validators give their verdicts
GenOutcomes ==
    {[kind |-> "raised"], [kind |-> "error"], [kind |-> "no_yaml"]}
    \cup {[kind |-> "yaml", results |-> r] : r \in Verdicts}

approved(verdicts) == Cardinality({i \in DOMAIN verdicts : verdicts[i]})

\* _validate_yaml: the verdicts are counted, 2 approvals pass
\* (the slip: one approval passes)
_validate_yaml_AnyApproval(verdicts) ==
    [passed |-> approved(verdicts) >= 1, approved |-> approved(verdicts),
     total |-> Len(verdicts), results |-> verdicts]
_validate_yaml(verdicts) ==
    [passed |-> approved(verdicts) >= 2, approved |-> approved(verdicts),
     total |-> Len(verdicts), results |-> verdicts]

\* range(1, retry_limit + 1)
attempts_range(limit) == 1..limit

\* the method returns this dict
GenReturn(result) ==
    /\ gen_result' = result
    /\ gen_returned' = "dict"
    /\ gen_pc' = "done"
    /\ UNCHANGED previous_notes

\* generation_config["data_conversion_request_msg"] of
\* build_generation_config: the text of the request, with no token in it
generation_request_msg == {"Generate the UDC01 YAML configuration now."}

\* the token of the request templates, and the text convert_data looks for
PreviousNotesToken == "{<!--PreviousConversionNotes-->}"
convert_data_pattern == "{{<!--PreviousConversionNotes-->}}"

\* convert_data(data, config, previous_notes): the request message of the job
\* submitted; with notes, the pattern is replaced by them where it occurs
convert_data(request_msg, notes) ==
    IF notes # ""
    THEN Replace(request_msg, convert_data_pattern, {notes})
    ELSE request_msg

\* the pass ends with notes for the next one
GenContinue(notes) ==
    /\ previous_notes' = notes
    /\ gen_pc' = "loop"
    /\ UNCHANGED <<gen_result, gen_returned>>

\* the template is loaded and the generation config built; what raises here
\* is caught by the method's except and returned as failed
GenSetup ==
    /\ gen_pc = "setup"
    /\ \E ok \in BOOLEAN :
          IF ok
          THEN /\ gen_pc' = "loop"
               /\ gen_attempt' = 1
               /\ UNCHANGED <<gen_result, gen_returned>>
          ELSE /\ gen_result' = [status |-> "failed", reason |-> "exception"]
               /\ gen_returned' = "dict"
               /\ gen_pc' = "done"
               /\ UNCHANGED gen_attempt
    /\ UNCHANGED <<retry_limit, gen_calls, previous_notes, gen_history,
                   gen_requests, consVars, agentVars, pipeVars, parseVars, logVars,
                   lateVars>>

\* one pass of the loop: a generation call, then extraction and validation
GenAttempt ==
    /\ gen_pc = "loop"
    /\ gen_attempt \in attempts_range(retry_limit)
    /\ \E o \in GenOutcomes :
          /\ gen_calls' = gen_calls + 1
          /\ gen_history' = Append(gen_history, o)
          /\ gen_requests' =
                Append(gen_requests,
                       [previous_notes |-> previous_notes,
                        request |-> convert_data(generation_request_msg,
                                                 previous_notes)])
          /\ gen_attempt' = gen_attempt + 1
          /\ CASE o.kind = "raised" ->
                    GenReturn([status |-> "failed", reason |-> "exception"])
               [] o.kind = "error" ->
                    IF gen_attempt < retry_limit
                    THEN GenContinue("failed with error")
                    ELSE GenReturn([status |-> "failed", reason |-> "error"])
               [] o.kind = "no_yaml" ->
                    IF gen_attempt < retry_limit
                    THEN GenContinue("Could not extract YAML")
                    ELSE GenReturn([status |-> "failed",
                                    reason |-> "Failed to extract YAML"])
               [] o.kind = "yaml" ->
                    LET validation == _validate_yaml(o.results)
                        success == [status |-> "success",
                                    yaml_config |-> "yaml",
                                    validation_results |-> validation,
                                    attempts |-> gen_attempt]
                    IN  IF validation.passed
                        THEN GenReturn(success)
                        ELSE IF gen_attempt < retry_limit
                        THEN GenContinue("validation failed")
                        ELSE GenReturn(success)
    /\ UNCHANGED <<retry_limit, consVars, agentVars, pipeVars, parseVars,
                   logVars, lateVars>>

\* the loop is over without a return: the try block ends, and so does the
\* method, without a return statement
GenLoopEnd ==
    /\ gen_pc = "loop"
    /\ gen_attempt \notin attempts_range(retry_limit)
    /\ gen_returned' = "None"
    /\ gen_pc' = "done"
    /\ UNCHANGED <<retry_limit, gen_attempt, gen_calls, previous_notes,
                   gen_history, gen_requests, gen_result, consVars, agentVars, pipeVars,
                   parseVars, logVars, lateVars>>

InitGen ==
    /\ gen_pc = "setup"
    /\ retry_limit \in 0..MaxRetryLimit
    /\ gen_attempt = 0 /\ gen_calls = 0
    /\ previous_notes = "" /\ gen_history = <<>> /\ gen_returned = ""
    /\ gen_requests = <<>>
    /\ gen_result = NoKeys
    /\ ConsIdle /\ AgentIdle /\ PipeIdle /\ ParseIdle /\ LogIdle /\ LateIdle

NextGen == GenSetup \/ GenAttempt \/ GenLoopEnd

SpecGen == InitGen /\ [][NextGen]_vars

\* the k-th pass got YAML that the validators passed with 2 approvals
PassedAt(k) ==
    /\ gen_history[k].kind = "yaml"
    /\ approved(gen_history[k].results) >= 2

GenSuccess ==
    gen_returned = "dict" /\ gen_result.status = "success"

\* C29: generate_yaml_config makes at most retry_limit generation calls,
\* returns on the first attempt whose YAML passes the 2-of-3 validation with
\* attempts equal to that attempt's number, and returns success with a failed
\* validation only on the final attempt; on an earlier attempt success
\* implies that the validation passed.
C29_GenerationRetries ==
    /\ gen_calls <= retry_limit
    /\ gen_calls = Len(gen_history)
    /\ \A k \in DOMAIN gen_history :
          PassedAt(k) => /\ k = Len(gen_history)
                         /\ GenSuccess
                         /\ gen_result.attempts = k
                         /\ gen_result.validation_results.passed
    /\ GenSuccess
       => /\ gen_result.attempts = Len(gen_history)
          /\ gen_history[Len(gen_history)].kind = "yaml"
          /\ gen_result.validation_results.approved
                = approved(gen_history[Len(gen_history)].results)
          /\ \/ PassedAt(gen_result.attempts)
             \/ gen_result.attempts = retry_limit
          /\ gen_result.attempts < retry_limit
             => gen_result.validation_results.passed

\* the first attempt's YAML got one approval, the second's two: success
\* with attempts 2 of 3
C29_Witness ==
    /\ gen_pc = "done" /\ retry_limit = 3
    /\ Len(gen_history) = 2
    /\ gen_history[1].kind = "yaml" /\ approved(gen_history[1].results) = 1
    /\ PassedAt(2)
    /\ GenSuccess /\ gen_result.attempts = 2

\* C30: for every retry_limit, 0 included, and every sequence of generation,
\* extraction and validation outcomes, generate_yaml_config returns a dict
\* with the status success or failed; it never falls through without one.
C30_AlwaysAResult ==
    gen_pc = "done"
    => /\ gen_returned = "dict"
       /\ gen_result.status \in {"success", "failed"}

----------------------------------------------------------------------------
(* The decision of the early exit (checked under SpecConsensus) *)

\* the agents that would approve if all three were run
WouldApprove ==
    {i \in Agents : GetIsValid(ExpectedOutcome(i, PlaceholderOutcome))}

\* C33: the early exit never changes the decision: for every assignment of
\* verdicts to the three agents, the pass/fail of the result that is returned
\* (2 or 3 outcomes) is the pass/fail of running all three agents and taking
\* count(true) >= 2.
C33_EarlyExitKeepsDecision ==
    \A m \in Modes :
       Returned(m)
       => /\ Len(finished[m].outcomes) \in {2, 3}
          /\ (success_count(finished[m].outcomes) >= 2)
                = (Cardinality(WouldApprove) >= 2)

\* two rejections end the run after two outcomes although agent 2 would
\* approve: the run fails, as all three would
C33_Witness ==
    /\ Returned("sequential") /\ Returned("parallel")
    /\ Len(finished["sequential"].outcomes) = 2
    /\ finished["sequential"].outcomes[1].isvalid = FALSE
    /\ finished["sequential"].outcomes[2].isvalid = FALSE
    /\ responses[2] = MsgTrue
    /\ WouldApprove = {2}
    /\ success_count(finished["parallel"].outcomes) = 0

----------------------------------------------------------------------------
(* What is saved, and when (checked under Spec) *)

\* C34: in every run save_output_data is called at most once, only in a run
\* that ends in success, and the text saved is the output of the most recent
\* conversion attempt, the one for which at least 2 validators returned true
\* in that attempt; no output of an earlier, rejected attempt is saved.
C34_SavesTheValidatedOutput ==
    /\ Len(saved) <= 1
    /\ Terminated /\ ~HasStatus("success") => saved = <<>>
    /\ saved # <<>>
       => /\ Terminated /\ HasStatus("success")
          /\ conversion_output(conv_response) # None
          /\ saved[1].text = conversion_output(conv_response).text
          /\ saved[1].text = output_data.text
          /\ Approvals(validation_results) >= 2
          /\ p_result.validation = validation_results
          /\ Len(val_passed) = conv_attempts
          /\ \A k \in DOMAIN val_passed : val_passed[k] <=> k = conv_attempts

\* the first conversion's output was rejected, the second conversion gave
\* another output, which was approved and saved
C34_Witness ==
    /\ Terminated /\ HasStatus("success")
    /\ conv_attempts = 2
    /\ val_passed = <<FALSE, TRUE>>
    /\ conv_response = ConvOutB
    /\ Len(saved) = 1
    /\ saved[1].text = conversion_output(ConvOutB).text
    /\ saved[1].text # conversion_output(ConvOutA).text

----------------------------------------------------------------------------
(* The order of the stages of one run (checked under Spec) *)

\* what holds of the stages in every state
StagesInOrder ==
    /\ conv_attempts > 0
       => /\ PreVerificationRan
          /\ ~VerificationFails(pre_verification_results)
    /\ val_runs <= conv_attempts
    /\ p_pc = "validate"
       => /\ val_runs = conv_attempts
          /\ Len(val_passed) = val_runs - 1
          /\ output_data = conversion_output(conv_response)
    /\ p_pc = "verify" => conv_attempts = 0 /\ ~PreVerificationRan

\* what holds of every step that invokes an agent
StageStep ==
    /\ agent_calls'["verify"] # agent_calls["verify"]
       => /\ p_pc = "verify" /\ conv_attempts = 0 /\ ~PreVerificationRan
          /\ agent_calls'["convert"] = 0 /\ agent_calls'["validate"] = 0
    /\ pre_verification_results' # pre_verification_results
       => ~PreVerificationRan /\ conv_attempts = 0
    /\ agent_calls'["convert"] # agent_calls["convert"]
       => /\ p_pc = "while" /\ PreVerificationRan
          /\ agent_calls'["convert"] = agent_calls["convert"] + 1
          /\ agent_calls'["verify"] = agent_calls["verify"]
          /\ agent_calls'["validate"] = agent_calls["validate"]
          /\ Len(val_passed) = conv_attempts
    /\ agent_calls'["validate"] # agent_calls["validate"]
       => /\ p_pc = "validate" /\ val_runs = conv_attempts
          /\ agent_calls'["convert"] = agent_calls["convert"]
          /\ agent_calls'["verify"] = agent_calls["verify"]
          /\ conv_response' = conv_response /\ output_data' = output_data
    /\ Terminated => agent_calls' = agent_calls /\ dispatched' = dispatched

\* C35: within one run the stages are strictly ordered: the pre-verification
\* runs exactly once and completes before any conversion call, it is not
\* repeated on retry, every validation run is immediately preceded by the
\* conversion call whose output it validates, and no agent is invoked after
\* the run reached a terminal status.
C35_StagesStrictlyOrdered == [](StagesInOrder) /\ [][StageStep]_vars

\* a run of three verifications, two conversions and two validation runs
\* that ended failed
C35_Witness ==
    /\ Terminated /\ HasStatus("failed")
    /\ agent_calls["verify"] = 3
    /\ conv_attempts = 2 /\ val_runs = 2
    /\ agent_calls["validate"] >= 4
    /\ val_passed = <<FALSE, FALSE>>

----------------------------------------------------------------------------
(* Runs with max_retries = 0 (checked under Spec) *)

\* the pre-verification returned and at least 2 verifiers approved
PreVerificationPassed ==
    PreVerificationRan /\ ~VerificationFails(pre_verification_results)

\* C36: a run whose pre-verification passes makes at least one conversion
\* attempt before it reports a terminal status, for every max_retries, 0
\* included; a failed result therefore carries the outcomes of at least one
\* validation run.
C36_AtLeastOneAttempt ==
    Terminated /\ PreVerificationPassed
    => /\ conv_attempts >= 1
       /\ HasStatus("failed")
          => /\ val_runs >= 1
             /\ p_result.validation # <<>>

----------------------------------------------------------------------------
(* Input data that contains a placeholder token (checked under Spec) *)

\* the file loads, its text holds a token the verification request does not
\* substitute, and the request template takes the data in
DataKeepsPlaceholder ==
    /\ load_file(file_state) # None
    /\ file_text # {}
    /\ "{<!--Data-->}" \in p_templates["verify"]
    /\ verification_request(p_templates["verify"], file_text) \cap Placeholders
          # {}

\* C37: the unresolved-placeholder check is applied to the fully substituted
\* request text, so input data that itself contains a placeholder token the
\* payload builder does not substitute makes the agent's outcome negative
\* without any network call; when this happens for agents 0 and 1 of the
\* pre-verification, the run ends pre-verification_failed with zero network
\* calls.
C37_DataPlaceholderStopsRun ==
    DataKeepsPlaceholder
    => /\ \A st \in Stages : agent_calls[st] = 0
       /\ dispatched = {}
       /\ Terminated
          => /\ HasStatus("pre-verification_failed")
             /\ Len(pre_verification_results) = 2
             /\ \A k \in 1..2 : pre_verification_results[k] = PlaceholderOutcome

----------------------------------------------------------------------------
(* The file loop as a whole (checked under SpecLogs) *)

\* the passes of the loop whose log was written, in order
RECURSIVE SavedFiles(_)
SavedFiles(h) ==
    IF h = <<>> THEN <<>>
    ELSE LET front == SavedFiles(SubSeq(h, 1, Len(h) - 1))
         IN  IF h[Len(h)].save_logs = "saved"
             THEN Append(front, h[Len(h)].file)
             ELSE front

\* every file once and in list order, whatever was raised on the way
EachFileOnceInOrder ==
    /\ Len(lg_history) <= Len(files_to_process)
    /\ \A k \in DOMAIN lg_history : lg_history[k].file = files_to_process[k]
    /\ lg_pc = "done" => Len(lg_history) = Len(files_to_process)
    /\ lg_pc \in {"process", "save"}
       => Len(lg_history) = (IF lg_pc = "save" THEN file_idx ELSE file_idx - 1)

----------------------------------------------------------------------------
(* Several runs of process_data on one config (data_flow.py): what one run
   leaves in the shared agent dicts, and what the next run makes of it *)

MaxRuns == 3
MaxRunRetries == 1

RunFiles == {"a.csv", "b.csv"}

\* the agent dicts of the config: three verifiers, the converter, three
\* validators
RunAgents ==
    {<<st, i>> : st \in {"verify", "validate"}, i \in Agents}
    \cup {<<"convert", 0>>}

\* an agent dict as load_config leaves it (the keys run_agent reads)
LoadedAgent ==
    [k \in {"default_model", "default_temperature"} |-> ConfigValue(k)]

\* _prepare_agent(agent_cfg, config): base_url and endpoint are written
\* (the slip: the endpoint is appended to what the dict holds already)
_prepare_agent_Appending(agent) ==
    [k \in DOMAIN agent \cup {"base_url", "endpoint"} |->
        IF k = "base_url" THEN <<ConfigValue(k)>>
        ELSE IF k = "endpoint"
        THEN (IF k \in DOMAIN agent THEN agent[k] ELSE <<>>)
                \o <<ConfigValue(k)>>
        ELSE agent[k]]
_prepare_agent(agent) ==
    [k \in DOMAIN agent \cup {"base_url", "endpoint"} |->
        IF k \in {"base_url", "endpoint"} THEN <<ConfigValue(k)>> ELSE agent[k]]

\* the agent dicts after a run that prepared these agents
AfterRun(cfg, prepared) ==
    [a \in DOMAIN cfg |->
        IF a \in prepared THEN _prepare_agent(cfg[a]) ELSE cfg[a]]

\* run_agent(agent, payload) for a request made of this file: the model and
\* the temperature are read from the agent dict; the agent answers as
\* rn_oracle says when they are the configured ones
run_agent_for(file, agent_key, agent) ==
    IF /\ {"default_model", "default_temperature"} \subseteq DOMAIN agent
       /\ \A k \in {"default_model", "default_temperature"} :
             agent[k] = ConfigValue(k)
    THEN rn_oracle[file][agent_key]
    ELSE MsgError

\* the for loop of _verify_input_data_2of3 / _validate_output_2of3 from agent
\* i on; last is the last agent that was prepared and run
RECURSIVE for_loop(_, _, _, _, _)
\* what follows pass i of the loop: the next pass, or the loop is left
after_pass(pass, i, file, st, cfg) ==
    IF pass.kind = "continue"
    THEN for_loop(pass.results, i + 1, file, st, cfg)
    ELSE [kind |-> pass.kind, results |-> pass.results, exc |-> pass.exc,
          last |-> IF pass.called THEN i ELSE i - 1]
for_loop(rs, i, file, st, cfg) ==
    after_pass(LoopPass(rs, i, run_agent_for(file, <<st, i>>,
                                             _prepare_agent(cfg[<<st, i>>]))),
               i, file, st, cfg)

\* process_data from the three stages' outcomes: v the pre-verification loop,
\* conv the conversion response, w the validation loop.  The dict returned
\* (or the exception raised) and the agents whose dicts were prepared.
process_data_stages(v, conv, w, mr) ==
    LET verified == {<<"verify", i>> : i \in 0..v.last}
        converted == verified \cup {<<"convert", 0>>}
        validated == converted \cup {<<"validate", i>> : i \in 0..w.last}
    IN  IF v.kind = "raise"
        THEN [result |-> Raised(v.exc), prepared |-> verified]
        ELSE IF VerificationFails(v.results)
        THEN [result |-> PreVerificationFailedResult(v.results),
              prepared |-> verified]
        ELSE IF ~WhileCondition(0, mr)
        THEN [result |-> FailedResult(<<>>, 0), prepared |-> verified]
        ELSE IF conversion_output(conv) = None
        THEN [result |-> ConversionErrorResult(conv), prepared |-> converted]
        ELSE IF w.kind = "raise"
        THEN [result |-> Raised(w.exc), prepared |-> validated]
        ELSE IF ValidationPasses(w.results)
        THEN [result |-> SuccessResult(w.results), prepared |-> validated]
        ELSE [result |-> FailedResult(w.results, mr), prepared |-> validated]

\* process_data(file_path, config) for a file that loads; every agent's dict
\* is prepared right before its call.  The agents answer a repeated request
\* the same way, so every retry ends as the first attempt did.
process_data(file, cfg, mr) ==
    process_data_stages(
        for_loop(<<>>, 0, file, "verify", cfg),
        run_agent_for(file, <<"convert", 0>>,
                      _prepare_agent(cfg[<<"convert", 0>>])),
        for_loop(<<>>, 0, file, "validate", cfg),
        mr)

\* the answers of the three agents of a consensus stage: approval by the
\* first two, rejection that takes the third, an agent without content
StageAnswers ==
    {<<MsgTrue, MsgTrue, MsgFalse>>, <<MsgFalse, MsgTrue, MsgFalse>>,
     <<MsgError, MsgTrue, MsgTrue>>}

\* main's loop calls process_data for one more file
RunFile ==
    /\ rn_pc = "run"
    /\ Len(rn_history) < MaxRuns
    /\ \E file \in RunFiles :
          LET run == process_data(file, rn_cfg, rn_max_retries)
          IN  /\ rn_history' = Append(rn_history,
                                      [file |-> file, result |-> run.result])
              /\ rn_cfg' = AfterRun(rn_cfg, run.prepared)
    /\ UNCHANGED <<rn_pc, rn_oracle, rn_max_retries, consVars, agentVars,
                   pipeVars, parseVars, logVars, genVars, pollVars>>

InitRuns ==
    /\ rn_pc = "run"
    /\ \E ver \in [RunFiles -> StageAnswers] :
          \E val \in [RunFiles -> StageAnswers \ {<<MsgError, MsgTrue, MsgTrue>>}],
             conv \in [RunFiles -> {ConvOutA, ConvNoTags}] :
             rn_oracle =
                [f \in RunFiles |->
                    [a \in RunAgents |->
                        IF a[1] = "verify" THEN ver[f][a[2] + 1]
                        ELSE IF a[1] = "validate" THEN val[f][a[2] + 1]
                        ELSE conv[f]]]
    /\ rn_max_retries \in 0..MaxRunRetries
    /\ rn_cfg = [a \in RunAgents |-> LoadedAgent]
    /\ rn_history = <<>>
    /\ ConsIdle /\ AgentIdle /\ PipeIdle /\ ParseIdle /\ LogIdle /\ GenIdle
    /\ PollIdle

NextRuns == RunFile

SpecRuns == InitRuns /\ [][NextRuns]_vars

\* C39: the outcome of a run for a file depends only on the file's content,
\* the configuration and the agents' responses: the fields prepare_agent
\* writes into the shared agent dicts are idempotent, so running a file after
\* any sequence of earlier runs gives the same terminal status and outcomes
\* as running it first.
C39_RunsIndependent ==
    /\ \A k \in DOMAIN rn_history :
          rn_history[k].result
             = process_data(rn_history[k].file,
                            [a \in RunAgents |-> LoadedAgent],
                            rn_max_retries).result
    /\ \A j, k \in DOMAIN rn_history :
          rn_history[j].file = rn_history[k].file
          => rn_history[j].result = rn_history[k].result
    /\ \A a \in RunAgents :
          /\ rn_cfg[a] \in {LoadedAgent, _prepare_agent(LoadedAgent)}
          /\ _prepare_agent(rn_cfg[a]) = _prepare_agent(LoadedAgent)

\* a.csv, then b.csv whose verification needed the third verifier and
\* failed, then a.csv again: success as the first time, on agent dicts the
\* earlier runs wrote
C39_Witness ==
    /\ Len(rn_history) = 3
    /\ rn_history[1].file = "a.csv" /\ rn_history[2].file = "b.csv"
    /\ rn_history[3].file = "a.csv"
    /\ rn_history[1].result.status = "success"
    /\ Len(rn_history[1].result.validation) = 2
    /\ rn_history[2].result.status = "pre-verification_failed"
    /\ Len(rn_history[2].result.pre_verification_results) = 3
    /\ rn_history[3].result = rn_history[1].result
    /\ rn_cfg[<<"verify", 2>>] = _prepare_agent(LoadedAgent)
    /\ rn_cfg[<<"validate", 2>>] = LoadedAgent

----------------------------------------------------------------------------
(* The notes of a failed generation attempt and the next request
   (builder.py, api_client.py) *)

\* the notes generate_yaml_config writes after a pass that is retried
NotesOf(o) ==
    CASE o.kind = "error" -> "failed with error"
      [] o.kind = "no_yaml" -> "Could not extract YAML"
      [] o.kind = "yaml" -> "validation failed"
      [] OTHER -> ""

\* C31: when a generation attempt fails (error, extraction failure or
\* validation failure) and a retry follows, the request sent on attempt k+1
\* contains the notes of attempt k and no unresolved previous-notes token.
C31_NotesReachNextRequest ==
    \A k \in DOMAIN gen_requests :
       k > 1 =>
          /\ gen_requests[k].previous_notes = NotesOf(gen_history[k - 1])
          /\ NotesOf(gen_history[k - 1]) \in gen_requests[k].request
          /\ PreviousNotesToken \notin gen_requests[k].request
          /\ convert_data_pattern \notin gen_requests[k].request

----------------------------------------------------------------------------
(* CloudUDCClient.run_job and _poll_job (api_client.py): a job is submitted
   and its status polled until it is over or max_wait has passed *)

MaxWaitBound == 5
\* longest a GET takes, in seconds (the model's cap on timeout=10)
MaxRequestTime == 1
\* time.sleep(2)
PollSleep == 2

\* what GET /jobs/{job_id} answers: a job result, with or without status
JobResults ==
    {[job_id |-> "job-1", status |-> st, error |-> "job error"] :
        st \in {"completed", "failed", "processing", "cancelled"}}
    \cup {[job_id |-> "job-1"]}
\* a GET ends in a job result or in a RequestException
PollOutcomes ==
    {[kind |-> "result", result |-> r] : r \in JobResults}
    \cup {[kind |-> "error", result |-> NoKeys]}

\* status = result.get("status")
get_status(result) ==
    IF "status" \in DOMAIN result THEN result.status ELSE "None"

\* if status == "completed": return result / elif status == "failed": return
\* result (the slip: only a completed job ends the polling)
returns_result_CompletedOnly(status) == status = "completed"
returns_result(status) == status \in {"completed", "failed"}

\* the dict returned after the while loop
TimeoutResult ==
    [status |-> "failed", error |-> "Job did not complete in max_wait",
     job_id |-> "job-1"]

\* run_job: the job is posted; a RequestException there is returned as failed
SubmitJob ==
    /\ pl_pc = "submit"
    /\ \E ok \in BOOLEAN :
          IF ok
          THEN pl_pc' = "poll" /\ UNCHANGED pl_result
          ELSE /\ pl_pc' = "done"
               /\ pl_result' = [status |-> "failed",
                                error |-> "API request failed"]
    /\ UNCHANGED <<pl_max_wait, pl_clock, pl_polls, consVars, agentVars,
                   pipeVars, parseVars, logVars, genVars, runVars>>

\* one pass of the while loop: the GET, then a return or the sleep
PollJob ==
    /\ pl_pc = "poll"
    /\ pl_clock < pl_max_wait
    /\ \E o \in PollOutcomes, request_time \in 0..MaxRequestTime :
          /\ pl_polls' = Append(pl_polls, o)
          /\ IF o.kind = "result" /\ returns_result(get_status(o.result))
             THEN /\ pl_result' = o.result
                  /\ pl_pc' = "done"
                  /\ pl_clock' = pl_clock + request_time
             ELSE /\ pl_clock' = pl_clock + request_time + PollSleep
                  /\ UNCHANGED <<pl_pc, pl_result>>
    /\ UNCHANGED <<pl_max_wait, consVars, agentVars, pipeVars, parseVars,
                   logVars, genVars, runVars>>

\* the while condition is false: the timeout result is returned
PollTimeout ==
    /\ pl_pc = "poll"
    /\ ~(pl_clock < pl_max_wait)
    /\ pl_result' = TimeoutResult
    /\ pl_pc' = "done"
    /\ UNCHANGED <<pl_max_wait, pl_clock, pl_polls, consVars, agentVars,
                   pipeVars, parseVars, logVars, genVars, runVars>>

InitPoll ==
    /\ pl_pc = "submit"
    /\ pl_max_wait \in 0..MaxWaitBound
    /\ pl_clock = 0 /\ pl_polls = <<>> /\ pl_result = NoKeys
    /\ ConsIdle /\ AgentIdle /\ PipeIdle /\ ParseIdle /\ LogIdle /\ GenIdle
    /\ RunIdle

NextPoll == SubmitJob \/ PollJob \/ PollTimeout

SpecPoll == InitPoll /\ [][NextPoll]_vars

\* the polls that met a job result with status completed or failed
TerminalPolls ==
    {k \in DOMAIN pl_polls :
        /\ pl_polls[k].kind = "result"
        /\ "status" \in DOMAIN pl_polls[k].result
        /\ pl_polls[k].result.status \in {"completed", "failed"}}

PollingOutcome ==
    /\ pl_pc \in {"submit", "poll"} =>
          /\ TerminalPolls = {}
          /\ pl_result = NoKeys
    /\ pl_pc = "done" =>
          /\ pl_result.status \in {"completed", "failed"}
          /\ TerminalPolls # {} =>
                /\ TerminalPolls = {Len(pl_polls)}
                /\ pl_result = pl_polls[Len(pl_polls)].result
          /\ (TerminalPolls = {} /\ "job_id" \in DOMAIN pl_result) =>
                /\ pl_result = TimeoutResult
                /\ pl_clock >= pl_max_wait
          /\ (TerminalPolls = {} /\ "job_id" \notin DOMAIN pl_result) =>
                pl_polls = <<>>

PollingStep ==
    /\ pl_pc = "done" => UNCHANGED <<pl_polls, pl_result, pl_pc>>
    /\ (pl_pc = "poll" /\ pl_pc' = "done" /\ pl_result' = TimeoutResult) =>
          ~(pl_clock < pl_max_wait)
    /\ (pl_pc = "poll" /\ pl_clock < pl_max_wait) =>
          Len(pl_polls') = Len(pl_polls) + 1

\* C32: _poll_job returns the first polled job result whose status is
\* completed or failed, keeps polling after a transient request error or a
\* still-processing status, and otherwise returns a failed timeout result
\* once max_wait has elapsed; it never returns a result with any other
\* status and never polls again after a terminal status.
C32_PollUntilTerminalOrTimeout == [](PollingOutcome) /\ [][PollingStep]_vars

\* a request error, then a job still processing, then the failed job, which
\* is what is returned
C32_Witness ==
    /\ pl_pc = "done"
    /\ Len(pl_polls) = 3
    /\ pl_polls[1].kind = "error"
    /\ pl_polls[2].kind = "result"
    /\ get_status(pl_polls[2].result) = "processing"
    /\ get_status(pl_polls[3].result) = "failed"
    /\ pl_result = pl_polls[3].result

====
